---------------------------- MODULE Spec2Model ----------------------------
(***************************************************************************)
(* Model of the Aurora OS AI security manager                              *)
(* (src/kernel/ai_extensions/ai_security.c, ai_security.h): per-process    *)
(* security profiles, event scoring, decisions, the global event log and   *)
(* the periodic learning pass.                                             *)
(*                                                                         *)
(* The three profile scores are C floats.  They are modelled as IEEE-754   *)
(* binary32 values with round-to-nearest-even arithmetic, because the      *)
(* code compares them with literals such as 0.8f and 0.3f and the outcome  *)
(* of those comparisons depends on the rounding of every earlier step.     *)
(***************************************************************************)
EXTENDS Integers, Sequences, FiniteSets, TLC

(***************************************************************************)
(* IEEE-754 binary32, values of magnitude below 2^24.                      *)
(* A value is [m |-> mantissa, q |-> scale] and stands for m / 2^q, with   *)
(* 2^23 <= m < 2^24 (normalised), or m = 0, q = 0 for +0.0.                *)
(***************************************************************************)
Two23 == 2^23
Two24 == 2^24

FZero == [m |-> 0, q |-> 0]

\* Number of binary digits of n > 0.
RECURSIVE BitLen(_)
BitLen(n) == IF n = 0 THEN 0 ELSE 1 + BitLen(n \div 2)

\* BitLen(n) - 24 for 2^24 <= n < 2^31: the digits rounding drops.
ExtraBits(n) ==
    IF n < 2^25 THEN 1 ELSE IF n < 2^26 THEN 2 ELSE IF n < 2^27 THEN 3
    ELSE IF n < 2^28 THEN 4 ELSE IF n < 2^29 THEN 5 ELSE IF n < 2^30 THEN 6
    ELSE 7

\* Round the exact value (n + d) / 2^q to binary32, where d = 0 when sticky
\* is FALSE and 0 < d < 1 when sticky is TRUE (round to nearest, ties to even).
FRound(n, sticky, q) ==
    IF n = 0 THEN FZero
    ELSE IF n < Two24
    THEN IF n >= Two23 THEN [m |-> n, q |-> q]
         ELSE LET j == 24 - BitLen(n) IN [m |-> n * 2^j, q |-> q + j]
    ELSE LET k    == ExtraBits(n)
             t    == n \div 2^k
             r    == n % 2^k
             half == 2^(k - 1)
             up   == \/ r > half
                     \/ r = half /\ sticky
                     \/ r = half /\ ~sticky /\ t % 2 = 1
             t2   == IF up THEN t + 1 ELSE t
         IN  IF t2 = Two24 THEN [m |-> Two23, q |-> q - k - 1]
                           ELSE [m |-> t2, q |-> q - k]

\* -a: the sign is the sign of the mantissa.
FNeg(a) == [m |-> 0 - a.m, q |-> a.q]

\* a < b on values of either sign.
FLess(a, b) ==
    IF a.m < 0 /\ b.m >= 0 THEN TRUE
    ELSE IF a.m >= 0 /\ b.m < 0 THEN FALSE
    ELSE IF a.m < 0
    THEN b.q > a.q \/ (b.q = a.q /\ a.m < b.m)
    ELSE IF b.m = 0 THEN FALSE
    ELSE IF a.m = 0 THEN TRUE
    ELSE a.q > b.q \/ (a.q = b.q /\ a.m < b.m)

FLeq(a, b) == a = b \/ FLess(a, b)

\* a + b, correctly rounded (guard, round and sticky bits on the smaller operand).
FAdd(a, b) ==
    IF a.m = 0 THEN b
    ELSE IF b.m = 0 THEN a
    ELSE LET x == IF a.q <= b.q THEN a ELSE b      \* the larger exponent
             y == IF a.q <= b.q THEN b ELSE a
             d == y.q - x.q
         IN  IF d <= 3
             THEN FRound(x.m * 2^d + y.m, FALSE, y.q)
             ELSE IF d >= 30
             THEN FRound(x.m * 8, TRUE, x.q + 3)
             ELSE LET ysh == y.m \div 2^(d - 3)
                      st  == (y.m % 2^(d - 3)) # 0
                  IN  FRound(x.m * 8 + ysh, st, x.q + 3)

\* a - b for a >= b, correctly rounded.
FSubAbs(a, b) ==
    IF b.m = 0 THEN a
    ELSE IF a = b THEN FZero
    ELSE LET d == b.q - a.q
         IN  IF d <= 3
             THEN FRound(a.m * 2^d - b.m, FALSE, b.q)
             ELSE IF d >= 30
             THEN FRound(a.m * 8 - 1, TRUE, a.q + 3)
             ELSE LET ysh == b.m \div 2^(d - 3)
                      st  == (b.m % 2^(d - 3)) # 0
                  IN  IF st THEN FRound(a.m * 8 - ysh - 1, TRUE, a.q + 3)
                            ELSE FRound(a.m * 8 - ysh, FALSE, a.q + 3)

\* Long division: n holds the quotient bits produced so far of s / d.
RECURSIVE FDivBits(_, _, _, _)
FDivBits(n, rem, d, q) ==
    IF n >= 2^25 THEN FRound(n, rem # 0, q)
    ELSE FDivBits(2 * n + (IF 2 * rem >= d THEN 1 ELSE 0), (2 * rem) % d, d, q + 1)

\* (float)s / (float)d for small non-negative integers s, d > 0: the
\* correctly rounded quotient.  A decimal literal such as 0.8f is the
\* correctly rounded value of 8/10, i.e. FDivInt(8, 10).
FDivInt(s, d) == IF s = 0 THEN FZero ELSE FDivBits(s \div d, s % d, d, 0)

\* a * (float)k for a small integer k (a.m * k stays below 2^31 for k <= 127).
FMulInt(a, k) == FRound(a.m * k, FALSE, a.q)

\* (u32)a: truncation toward zero.
FTrunc(a) == IF a.q >= 31 THEN 0 ELSE a.m \div 2^(a.q)

\* a - b for non-negative a, b: negative when a < b.
FSub(a, b) == IF FLess(a, b) THEN FNeg(FSubAbs(b, a)) ELSE FSubAbs(a, b)

FMin(a, b) == IF FLess(b, a) THEN b ELSE a
FMax(a, b) == IF FLess(a, b) THEN b ELSE a


(***************************************************************************)
(* Program constants (ai_security.h) and enumerations.                     *)
(***************************************************************************)
AI_SECURITY_THREAT_SCORE_THRESHOLD == 75
AI_SECURITY_HASH_SIZE == 256
AI_SECURITY_MAX_PROFILES == 256
AI_SECURITY_MAX_EVENTS_PER_PROCESS == 100
RetentionMs == 3600000
DayMs == 86400000

AI_SECURITY_THREAT_NONE == 0
AI_SECURITY_THREAT_LOW == 1
AI_SECURITY_THREAT_MEDIUM == 2
AI_SECURITY_THREAT_HIGH == 3
AI_SECURITY_THREAT_CRITICAL == 4

AI_SECURITY_ACTION_ALLOW == 0
AI_SECURITY_ACTION_WARN == 1
AI_SECURITY_ACTION_BLOCK == 2
AI_SECURITY_ACTION_QUARANTINE == 3
AI_SECURITY_ACTION_TERMINATE == 4

EventTypes == {"FILE_ACCESS", "NETWORK_CONNECT", "PROCESS_EXEC",
               "PRIVILEGE_ESCALATION", "MEMORY_PROTECTION", "SYSTEM_CALL",
               "SUSPICIOUS_PATTERN"}

\* What the scoring reads of an event's description and payload:
\*   "none"      event_data is NULL
\*   "plain"     event_data is set; no pattern of the scorer matches
\*   "sensitive" event_data is set and the description contains "sensitive"
\*   "tmp"       event_data is a path containing "/tmp/" or "/var/tmp/"
Payloads == {"none", "plain", "sensitive", "tmp"}

(***************************************************************************)
(* Bounds of the model.                                                    *)
(***************************************************************************)
MaxEvents == 3      \* events created in one behaviour
MaxPasses == 2      \* learning passes in one behaviour
MaxTicks == 1       \* clock advances in one behaviour
MaxDeepEvents == 10  \* SpecDeep: events created in one behaviour
MaxDeepPasses == 2  \* SpecDeep: learning passes in one behaviour
MaxLearnEvents == 11 \* SpecLearn: events created in one behaviour
MaxCalls == 3       \* SpecConc: hook calls in one behaviour
MaxTwinEvents == 2  \* SpecTwin: events created before the first submission
MaxTwinPasses == 1  \* SpecTwin: learning passes before the first submission
MaxRaceCalls == 3   \* SpecRace: hook calls in one behaviour
MaxRacePasses == 1  \* SpecRace: learning passes in one behaviour
MaxRaceTicks == 2   \* SpecRace: clock advances in one behaviour
TickMs == 1800001   \* length of one clock advance, ms

\* pid 1 is a system process (hooks skip it); the two others share a bucket.
Pids == {1, 2, 2 + AI_SECURITY_HASH_SIZE}
\* The CPUs that run hooks at the same time.
Threads == {1, 2}

NULL == 0      \* no object

(***************************************************************************)
(* Literals of the code, as binary32 values.                               *)
(***************************************************************************)
F_1_0 == FDivInt(1, 1)
F_0_8 == FDivInt(8, 10)
F_0_7 == FDivInt(7, 10)
F_0_3 == FDivInt(3, 10)
F_0_2 == FDivInt(2, 10)
F_0_01 == FDivInt(1, 100)
F_0_005 == FDivInt(5, 1000)

ai_security_is_system_process(pid) == pid < 2 \/ pid = 1

\* hash_32(pid, AI_SECURITY_HASH_SIZE): the bucket of a pid.  The code passes
\* the table size where hash_32 expects a bit count; whatever index results,
\* it is a fixed function of the pid, which is all the model relies on.
Bucket(pid) == pid % AI_SECURITY_HASH_SIZE

Buckets == {Bucket(p) : p \in Pids}

\* u32 fields that the code only increments and compares (anomaly_count,
\* event_count) keep their width: the value u is held as the integer
\* congruent to u modulo 2^32 in -2^31 .. 2^31 - 1, so that -1 stands for
\* 4294967295 and the increment of -1 is 0.  U32Above(v, k) is the unsigned
\* v > k for a small k.
U32Inc(v) == IF v = 2147483647 THEN -2147483647 - 1 ELSE v + 1

U32Above(v, k) == v < 0 \/ v > k

\* A maximum that keeps what was there.
TakeFirst(a, b) == a

\* An assignment where the code takes the maximum.
TakeSecond(a, b) == b

Max(a, b) == IF a >= b THEN a ELSE b
Min(a, b) == IF a <= b THEN a ELSE b

(***************************************************************************)
(* Threat classification and action selection.                             *)
(***************************************************************************)
\* A classification whose Critical step starts one score late: it differs
\* from the code's at score 90.
ClassifyThreatLate(score) ==
    IF score > 90 THEN AI_SECURITY_THREAT_CRITICAL
    ELSE IF score >= 70 THEN AI_SECURITY_THREAT_HIGH
    ELSE IF score >= 50 THEN AI_SECURITY_THREAT_MEDIUM
    ELSE IF score >= 25 THEN AI_SECURITY_THREAT_LOW
    ELSE AI_SECURITY_THREAT_NONE

ai_security_classify_threat(score) ==
    IF score >= 90 THEN AI_SECURITY_THREAT_CRITICAL
    ELSE IF score >= 70 THEN AI_SECURITY_THREAT_HIGH
    ELSE IF score >= 50 THEN AI_SECURITY_THREAT_MEDIUM
    ELSE IF score >= 25 THEN AI_SECURITY_THREAT_LOW
    ELSE AI_SECURITY_THREAT_NONE

\* An action selection that responds only above the threshold: it differs
\* from the code's when the score equals the threshold.
RecommendedActionAbove(score, threshold) ==
    IF score > threshold
    THEN IF score >= 90 THEN AI_SECURITY_ACTION_TERMINATE
         ELSE IF score >= 80 THEN AI_SECURITY_ACTION_BLOCK
         ELSE AI_SECURITY_ACTION_QUARANTINE
    ELSE IF score >= 50 THEN AI_SECURITY_ACTION_WARN
    ELSE AI_SECURITY_ACTION_ALLOW

\* "Determine recommended action" of ai_security_analyze_event.
RecommendedAction(score, threshold) ==
    IF score >= threshold
    THEN IF score >= 90 THEN AI_SECURITY_ACTION_TERMINATE
         ELSE IF score >= 80 THEN AI_SECURITY_ACTION_BLOCK
         ELSE AI_SECURITY_ACTION_QUARANTINE
    ELSE IF score >= 50 THEN AI_SECURITY_ACTION_WARN
    ELSE AI_SECURITY_ACTION_ALLOW

(***************************************************************************)
(* Objects.                                                                *)
(***************************************************************************)
\* ai_security_create_profile: the profile as initialised (kzalloc zeroes
\* every field the function does not set).  recent_events holds the ids of
\* the events the profile's array refers to, oldest first; no slot is set.
NewProfile(pid, t) ==
    [pid |-> pid,
     network_connection_count |-> 0,
     privilege_escalation_count |-> 0,
     recent_events |-> <<>>,
     event_count |-> 0,
     event_index |-> 0,
     anomaly_count |-> 0,
     threat_score |-> 0,
     current_threat |-> AI_SECURITY_THREAT_NONE,
     behavior_score |-> F_0_8,
     risk_score |-> F_0_2,
     trust_score |-> F_0_7,
     creation_time |-> t,
     last_activity |-> t,
     under_observation |-> FALSE,
     quarantined |-> FALSE,
     hash_next |-> NULL]

\* ai_security_create_event, then the fields the calling hook fills in.
NewEvent(id, type, pid, payload, t) ==
    [event_id |-> id,
     type |-> type,
     timestamp |-> t,
     pid |-> pid,
     payload |-> payload,
     threat_level |-> AI_SECURITY_THREAT_NONE,
     threat_score |-> 0,
     recommended_action |-> AI_SECURITY_ACTION_ALLOW,
     confidence |-> 50]

\* The switch on event->type of ai_security_analyze_event: what it adds to
\* the event's score.
\* A base score that gives a sensitive file access 40 instead of 30.
BaseScoreFileForty(ev, prof) ==
    CASE ev.type = "FILE_ACCESS" ->
            IF ev.payload = "sensitive" THEN 40 ELSE 0
      [] ev.type = "NETWORK_CONNECT" ->
            IF prof.network_connection_count > 100 THEN 25 ELSE 0
      [] ev.type = "PRIVILEGE_ESCALATION" -> 60
      [] ev.type = "PROCESS_EXEC" ->
            IF ev.payload = "tmp" THEN 40 ELSE 0
      [] OTHER -> 0

BaseScore(ev, prof) ==
    CASE ev.type = "FILE_ACCESS" ->
            IF ev.payload = "sensitive" THEN 30 ELSE 0
      [] ev.type = "NETWORK_CONNECT" ->
            IF prof.network_connection_count > 100 THEN 25 ELSE 0
      [] ev.type = "PRIVILEGE_ESCALATION" -> 60
      [] ev.type = "PROCESS_EXEC" ->
            IF ev.payload = "tmp" THEN 40 ELSE 0
      [] OTHER -> 0

\* A trust adjustment that also applies at trust 0.3 itself.
TrustAdjustmentInclusive(prof) ==
    IF FLeq(prof.trust_score, F_0_3) THEN 20 ELSE 0

\* A trust adjustment that compares with the behavior score a profile starts
\* with instead of 0.3: it applies to a fresh profile.
TrustAdjustmentBelowDefault(prof) ==
    IF FLess(prof.trust_score, F_0_8) THEN 20 ELSE 0

\* "Apply profile-based adjustments".
TrustAdjustment(prof) == IF FLess(prof.trust_score, F_0_3) THEN 20 ELSE 0

\* An anomaly adjustment that starts above 7 anomalies instead of above 5.
AnomalyAdjustmentLate(prof) == IF prof.anomaly_count > 7 THEN 15 ELSE 0

AnomalyAdjustment(prof) ==
    IF U32Above(prof.anomaly_count, 5) THEN 15 ELSE 0

\* The event's score: accumulated, then capped.
ThreatScore(ev, prof) ==
    Min(ev.threat_score + BaseScore(ev, prof) + TrustAdjustment(prof)
          + AnomalyAdjustment(prof), 100)

\* A confidence added to the 50 an event is created with, not assigned.
ConfidenceAdded(prof) == 50 + Min(FTrunc(FMulInt(prof.behavior_score, 100)), 100)

\* "Calculate confidence".
Confidence(prof) == Min(FTrunc(FMulInt(prof.behavior_score, 100)), 100)

\* score / 1000.0f, score / 500.0f, score / 200.0f for every capped score.
Div1000 == [s \in 0..100 |-> FDivInt(s, 1000)]
Div500 == [s \in 0..100 |-> FDivInt(s, 500)]
Div200 == [s \in 0..100 |-> FDivInt(s, 200)]

\* Score updates without their clamps, and an anomaly count that also counts
\* a score of 30.
UpdateRiskUnclamped(risk, score) == FAdd(risk, Div1000[score])

UpdateBehaviorUnclamped(behavior, score) == FSub(behavior, Div200[score])

UpdateAnomalyCountInclusive(count, score) ==
    IF score >= 30 THEN count + 1 ELSE count

\* "Update ML scores".
UpdateRisk(risk, score) == FMin(F_1_0, FAdd(risk, Div1000[score]))

\* A trust update with the divisor of the risk update.
UpdateTrustByThousand(trust, score) ==
    FMax(FZero, FSub(trust, Div1000[score]))

UpdateTrust(trust, score) == FMax(FZero, FSub(trust, Div500[score]))

UpdateBehavior(behavior, score) == FMax(FZero, FSub(behavior, Div200[score]))

UpdateAnomalyCount(count, score) ==
    IF score > 30 THEN U32Inc(count) ELSE count

\* ai_security_analyze_event on an event whose process has profile prof.
AnalyzedEvent(ev, prof, threshold) ==
    LET score == ThreatScore(ev, prof)
    IN  [ev EXCEPT !.threat_score = score,
                   !.threat_level = ai_security_classify_threat(score),
                   !.confidence = Confidence(prof),
                   !.recommended_action = RecommendedAction(score, threshold)]

AnalyzedProfile(ev, prof) ==
    LET score == ThreatScore(ev, prof)
    IN  [prof EXCEPT
           !.event_count = U32Inc(@),
           !.privilege_escalation_count =
               IF ev.type = "PRIVILEGE_ESCALATION" THEN @ + 1 ELSE @,
           !.threat_score = Max(@, score),
           !.current_threat = Max(@, ai_security_classify_threat(score)),
           !.anomaly_count = UpdateAnomalyCount(@, score),
           !.risk_score = UpdateRisk(@, score),
           !.trust_score = UpdateTrust(@, score),
           !.behavior_score = UpdateBehavior(@, score)]

\* ai_security_analyze_event when the process has no profile.
UnprofiledEvent(ev) ==
    [ev EXCEPT !.threat_level = AI_SECURITY_THREAT_LOW,
               !.threat_score = 25,
               !.recommended_action = AI_SECURITY_ACTION_WARN]

\* The text of ai_security_explain_decision, as the fields snprintf puts into
\* it: the description of the threat level, the score, the confidence, the
\* event's description (the hook's text and the file name, or "No description
\* available" when the hook set none) and the description of the action.
\* ExplanationWithId also puts the event's id into the text, as the debug
\* message of ai_security_analyze_event does.
ExplanationWithId(ev) ==
    <<ev.event_id, ev.threat_level, ev.threat_score, ev.confidence, ev.type,
      ev.payload, ev.recommended_action>>

Explanation(ev) ==
    <<ev.threat_level, ev.threat_score, ev.confidence,
      IF ev.type = "FILE_ACCESS" /\ ev.payload = "none"
      THEN "No description available" ELSE ev.type,
      ev.payload, ev.recommended_action>>

\* A decision that does not ask whether automatic response is enabled.
DecisionAlwaysResponding(ev, threshold, auto) ==
    IF ev.threat_score >= threshold
          /\ ev.recommended_action \in {AI_SECURITY_ACTION_TERMINATE,
                                        AI_SECURITY_ACTION_BLOCK,
                                        AI_SECURITY_ACTION_QUARANTINE}
    THEN 1 ELSE 0

\* ai_security_make_decision: 1 = deny, 0 = allow, for an analysed event.
Decision(ev, threshold, auto) ==
    IF ev.threat_score >= threshold /\ auto
          /\ ev.recommended_action \in {AI_SECURITY_ACTION_TERMINATE,
                                        AI_SECURITY_ACTION_BLOCK,
                                        AI_SECURITY_ACTION_QUARANTINE}
    THEN 1 ELSE 0

(***************************************************************************)
(* State.                                                                  *)
(***************************************************************************)
VARIABLES
    profiles,                       \* the allocated profile objects, by address 1..Len
    process_profiles,               \* ai_sec_mgr->process_profiles: addresses, in list order
    profile_hash,                   \* ai_sec_mgr->profile_hash: bucket -> address of its first profile
    recent_events,                  \* ai_sec_mgr->recent_events: events, in list order
    event_hash,                     \* ai_sec_mgr->event_hash: the ids of the hashed events
    event_id_counter,
    total_events_processed,
    threats_detected,
    threats_blocked,
    processes_monitored,
    last_learning_update,
    threat_intel,                   \* ai_sec_mgr->threat_intel: its last_update
    ai_security_threat_threshold,   \* module parameters
    ai_security_auto_response,
    ai_security_learning_enabled,
    now,                            \* ktime_get(), ms
    passes,                         \* learning passes run so far
    last,                           \* what the last hook call did and returned
    cpu,                            \* SpecConc: where each CPU is in its hook call, and its locals
    profiles_lock,                  \* ai_sec_mgr->profiles_lock: the CPU holding it, or NULL
    fn,                             \* SpecFn: a score and what classification made of it
    twin                            \* SpecTwin: the first of two submissions that are compared

vars == <<profiles, process_profiles, profile_hash, recent_events, event_hash,
          event_id_counter, total_events_processed, threats_detected,
          threats_blocked, processes_monitored, last_learning_update,
          threat_intel, ai_security_threat_threshold,
          ai_security_auto_response, ai_security_learning_enabled, now,
          passes, last, cpu, profiles_lock, fn, twin>>

\* What only the learning pass writes.
learn_vars == <<last_learning_update, threat_intel>>

store_vars == <<profiles, process_profiles, profile_hash, processes_monitored>>
log_vars == <<recent_events, event_hash>>
stat_vars == <<total_events_processed, threats_detected, threats_blocked>>
\* What no hook and no learning pass writes.
param_vars == <<ai_security_threat_threshold, ai_security_auto_response,
                ai_security_learning_enabled, fn, twin>>
conc_vars == <<cpu, profiles_lock>>

\* A CPU outside the hooks, after calls hook calls.
Idle(calls) == [pc |-> "idle", pid |-> 0, profile |-> NULL, first |-> NULL,
                calls |-> calls]

NoEvent == NewEvent(0, "FILE_ACCESS", 0, "none", 0)

\* The record of a hook call that scored an event against a profile: the hook,
\* its return value, the event as the scoring left it and the alert that
\* ai_security_log_threat wrote: the explanation of an event of level Medium
\* or above that ai_security_make_decision decided on, else none.
Scored(hook, ret, ev) ==
    [hook |-> hook, ret |-> ret, scored |-> TRUE, event |-> ev,
     alert |-> IF hook \in {"file_permission", "task_fix_setuid"}
                    /\ ev.threat_level >= AI_SECURITY_THREAT_MEDIUM
               THEN Explanation(ev) ELSE <<>>]

\* The record of a hook call that returned 0 before scoring anything: "skip"
\* (a system process, an unchanged uid, no profile) or "enomem" (an
\* allocation failed).
Unscored(why) ==
    [hook |-> why, ret |-> 0, scored |-> FALSE, event |-> NoEvent,
     alert |-> <<>>]

\* ai_security_profile_lookup: the first profile with that pid on the chain
\* of the pid's bucket (a chain is as long as the heap at most).
RECURSIVE ChainLookup(_, _, _, _)
ChainLookup(heap, addr, pid, fuel) ==
    IF addr = NULL \/ fuel = 0 THEN NULL
    ELSE IF heap[addr].pid = pid THEN addr
    ELSE ChainLookup(heap, heap[addr].hash_next, pid, fuel - 1)

LookupIn(hash, heap, pid) == ChainLookup(heap, hash[Bucket(pid)], pid, Len(heap))

ai_security_get_profile(pid) == LookupIn(profile_hash, profiles, pid)

\* The profiles on the chain of a bucket, first to last.
RECURSIVE Chain(_, _, _)
Chain(heap, addr, fuel) ==
    IF addr = NULL \/ fuel = 0 THEN <<>>
    ELSE <<addr>> \o Chain(heap, heap[addr].hash_next, fuel - 1)

\* hlist_add_head_rcu(&profile->hash, bucket): the node's next pointer is set
\* to first, the head of the bucket as the caller read it, and the bucket's
\* head to the node.
LinkedProfile(prof, first) == [prof EXCEPT !.hash_next = first]

\* A score before classification.
FnInput(score) == [score |-> score, applied |-> FALSE,
                   level |-> AI_SECURITY_THREAT_NONE,
                   action |-> AI_SECURITY_ACTION_ALLOW]

\* No submission recorded for comparison.
NoTwin == [phase |-> "warm", id |-> 0, before |-> NewProfile(0, 0),
           after |-> NewProfile(0, 0), out |-> Unscored("init")]

\* ai_security_init: the manager as allocated and initialised.
InitManager ==
    /\ profiles = <<>>
    /\ process_profiles = <<>>
    /\ profile_hash = [b \in Buckets |-> NULL]
    /\ processes_monitored = 0
    /\ recent_events = <<>>
    /\ event_hash = {}
    /\ event_id_counter = 1
    /\ total_events_processed = 0
    /\ threats_detected = 0
    /\ threats_blocked = 0
    /\ last_learning_update = 0
    /\ threat_intel = [last_update |-> 0]
    /\ now = 0
    /\ passes = 0
    /\ last = Unscored("init")
    /\ cpu = [t \in Threads |-> Idle(0)]
    /\ profiles_lock = NULL
    /\ twin = NoTwin

\* The module parameters at their defaults.
DefaultParams ==
    /\ ai_security_threat_threshold = AI_SECURITY_THREAT_SCORE_THRESHOLD
    /\ ai_security_auto_response = TRUE
    /\ ai_security_learning_enabled = TRUE

Init == InitManager /\ DefaultParams /\ fn = FnInput(0)

\* The events analysed against the profiles of heap: each analysis against a
\* profile runs profile->event_count++.
RECURSIVE EventsScored(_)
EventsScored(heap) ==
    IF heap = <<>> THEN 0 ELSE Head(heap).event_count + EventsScored(Tail(heap))

\* Those of them scored above 30: each runs profile->anomaly_count++.
RECURSIVE EventsScoredAboveThirty(_)
EventsScoredAboveThirty(heap) ==
    IF heap = <<>> THEN 0
    ELSE Head(heap).anomaly_count + EventsScoredAboveThirty(Tail(heap))

(***************************************************************************)
(* Hooks, each run to completion.                                          *)
(***************************************************************************)
\* An input of a call is read only when the call reaches the statement that
\* reads it: a call that does not reach it is enumerated once, with the input
\* at its default (the allocation succeeds, the uid changes, no payload).
Reached(reaches, nondefault) == nondefault => reaches

\* "Update statistics" of ai_security_make_decision for the analysed event
\* done and the decision deny.
\* Statistics that count a threat as detected above 60 only.
UpdateStatisticsDetectedLate(done, deny) ==
    /\ total_events_processed' = total_events_processed + 1
    /\ threats_detected' =
          IF done.threat_score > 60 THEN threats_detected + 1
                                    ELSE threats_detected
    /\ threats_blocked' =
          IF deny = 1 /\ done.recommended_action # AI_SECURITY_ACTION_WARN
          THEN threats_blocked + 1 ELSE threats_blocked

UpdateStatistics(done, deny) ==
    /\ total_events_processed' = total_events_processed + 1
    /\ threats_detected' =
          IF done.threat_score > 30 THEN threats_detected + 1
                                    ELSE threats_detected
    /\ threats_blocked' =
          IF deny = 1 /\ done.recommended_action # AI_SECURITY_ACTION_WARN
          THEN threats_blocked + 1 ELSE threats_blocked

\* A hook that adds every decided event to the recent events.
RetainAlways(ev, keep_above) ==
    /\ recent_events' = Append(recent_events, ev)
    /\ event_hash' = event_hash \cup {ev.event_id}

\* "Add to recent events" of a hook: kept when the score exceeds keep_above.
Retain(ev, keep_above) ==
    IF ev.threat_score > keep_above
    THEN /\ recent_events' = Append(recent_events, ev)
         /\ event_hash' = event_hash \cup {ev.event_id}
    ELSE UNCHANGED log_vars

\* A hook that counts the event it could not allocate as processed.
AllowWithoutEventCounted(why) ==
    /\ last' = Unscored(why)
    /\ total_events_processed' =
          IF why = "enomem" THEN total_events_processed + 1
                            ELSE total_events_processed
    /\ UNCHANGED <<log_vars, threats_detected, threats_blocked, event_id_counter>>

\* "return 0" of a hook before it has an event: for a system process, an
\* unchanged uid or a missing profile ("skip"), and when the allocation of
\* the profile or of the event failed ("enomem").
AllowWithoutEvent(why) ==
    /\ last' = Unscored(why)
    /\ UNCHANGED <<log_vars, stat_vars, event_id_counter>>

\* ai_security_file_permission for task pid.  prof_ok, ev_ok: whether the
\* allocation of a profile, of the event, succeeds.
FilePermission(pid, prof_ok, ev_ok, payload) ==
    /\ payload \in {"none", "plain", "sensitive"}
    /\ UNCHANGED <<param_vars, conc_vars, now, passes, learn_vars>>
    /\ Reached(~ai_security_is_system_process(pid)
                 /\ ai_security_get_profile(pid) = NULL, ~prof_ok)
    /\ Reached(~ai_security_is_system_process(pid)
                 /\ (ai_security_get_profile(pid) # NULL \/ prof_ok),
               ~ev_ok \/ payload # "none")
    /\ LET found   == ai_security_get_profile(pid)
           create  == found = NULL /\ prof_ok
           heap    == IF create
                      THEN Append(profiles,
                                  LinkedProfile(NewProfile(pid, now),
                                                profile_hash[Bucket(pid)]))
                      ELSE profiles
           addr    == IF create THEN Len(heap) ELSE found
           ev      == NewEvent(event_id_counter + 1, "FILE_ACCESS", pid, payload, now)
           done    == AnalyzedEvent(ev, heap[addr], ai_security_threat_threshold)
           deny    == Decision(done, ai_security_threat_threshold,
                               ai_security_auto_response)
       IN  IF ai_security_is_system_process(pid)
           THEN /\ AllowWithoutEvent("skip")
                /\ UNCHANGED store_vars
           ELSE /\ IF create
                   THEN /\ process_profiles' = Append(process_profiles, addr)
                        /\ processes_monitored' = processes_monitored + 1
                        /\ profile_hash' = [profile_hash EXCEPT
                                                ![Bucket(pid)] = addr]
                   ELSE UNCHANGED <<process_profiles, processes_monitored,
                                    profile_hash>>
                /\ IF addr = NULL \/ ~ev_ok
                   THEN /\ profiles' = heap
                        /\ AllowWithoutEvent("enomem")
                   ELSE /\ event_id_counter' = event_id_counter + 1
                        /\ profiles' = [heap EXCEPT ![addr] = AnalyzedProfile(ev, @)]
                        /\ UpdateStatistics(done, deny)
                        /\ Retain(done, 20)
                        /\ last' = Scored("file_permission",
                                          IF deny = 1 THEN -13 ELSE 0, done)

\* ai_security_task_create for task pid: the event is analysed, not decided
\* on, and freed.
TaskCreate(pid, ev_ok) ==
    /\ UNCHANGED <<param_vars, conc_vars, now, passes, learn_vars,
                   process_profiles, profile_hash, processes_monitored>>
    /\ Reached(~ai_security_is_system_process(pid)
                 /\ ai_security_get_profile(pid) # NULL, ~ev_ok)
    /\ LET addr == ai_security_get_profile(pid)
           ev   == NewEvent(event_id_counter + 1, "PROCESS_EXEC", pid, "none", now)
       IN  IF ai_security_is_system_process(pid) \/ addr = NULL \/ ~ev_ok
           THEN /\ AllowWithoutEvent(IF ev_ok THEN "skip" ELSE "enomem")
                /\ UNCHANGED profiles
           ELSE /\ event_id_counter' = event_id_counter + 1
                /\ profiles' = [profiles EXCEPT ![addr] = AnalyzedProfile(ev, @)]
                /\ UNCHANGED <<log_vars, stat_vars>>
                /\ last' = Scored("task_create", 0,
                              AnalyzedEvent(ev, profiles[addr],
                                            ai_security_threat_threshold))

\* ai_security_task_fix_setuid for task pid; changed: new->uid differs from
\* old->uid.
TaskFixSetuid(pid, changed, ev_ok) ==
    /\ UNCHANGED <<param_vars, conc_vars, now, passes, learn_vars,
                   process_profiles, profile_hash, processes_monitored>>
    /\ Reached(~ai_security_is_system_process(pid), ~changed)
    /\ Reached(~ai_security_is_system_process(pid) /\ changed
                 /\ ai_security_get_profile(pid) # NULL, ~ev_ok)
    /\ LET addr == ai_security_get_profile(pid)
           ev   == NewEvent(event_id_counter + 1, "PRIVILEGE_ESCALATION", pid,
                            "none", now)
           done == AnalyzedEvent(ev, profiles[addr], ai_security_threat_threshold)
           deny == Decision(done, ai_security_threat_threshold,
                            ai_security_auto_response)
       IN  IF ai_security_is_system_process(pid) \/ ~changed \/ addr = NULL
              \/ ~ev_ok
           THEN /\ AllowWithoutEvent(IF ev_ok THEN "skip" ELSE "enomem")
                /\ UNCHANGED profiles
           ELSE /\ event_id_counter' = event_id_counter + 1
                /\ profiles' = [profiles EXCEPT ![addr] = AnalyzedProfile(ev, @)]
                /\ UpdateStatistics(done, deny)
                /\ Retain(done, 30)
                /\ last' = Scored("task_fix_setuid",
                                   IF deny = 1 THEN -1 ELSE 0, done)

(***************************************************************************)
(* The learning pass and the clock.                                        *)
(***************************************************************************)
\* An event that is old as soon as the clock has moved on.
ExpiredAtOnce(ev, t) == t - ev.timestamp > 0

\* An age computed with the operands exchanged.
ExpiredSwapped(ev, t) == ev.timestamp - t > RetentionMs

\* "Remove events older than 1 hour".
Expired(ev, t) == t - ev.timestamp > RetentionMs

\* A learning pass that restores trust whatever the anomaly count.
RestoresTrustAnyProfile(prof) == FLess(prof.trust_score, F_0_8)

\* "Gradually restore trust for well-behaved processes".
RestoresTrust(prof) == prof.anomaly_count = 0 /\ FLess(prof.trust_score, F_0_8)

LearnedTrust(trust) == FAdd(trust, F_0_01)

LearnedRisk(risk) == FMax(FZero, FSub(risk, F_0_005))

LearnedProfile(prof, t) ==
    [prof EXCEPT
       !.trust_score = IF RestoresTrust(prof) THEN LearnedTrust(@) ELSE @,
       !.risk_score = IF RestoresTrust(prof) THEN LearnedRisk(@) ELSE @,
       !.last_activity = t]

\* "Update threat intelligence" at time t: the daily update.
ThreatIntelligence(intel, t) ==
    IF t - intel.last_update > DayMs THEN [intel EXCEPT !.last_update = t]
    ELSE intel

\* A pass that does not look at the parameter.
LearningNeverSkipped == FALSE

\* "if (!ai_sec_mgr || !ai_security_learning_enabled) return;"
LearningSkipped == ~ai_security_learning_enabled

\* ai_security_learning_work.
LearningWork ==
    /\ UNCHANGED <<param_vars, conc_vars, now, process_profiles, profile_hash,
                   processes_monitored, stat_vars, event_id_counter, last>>
    /\ passes' = passes + 1
    /\ IF LearningSkipped
       THEN UNCHANGED <<profiles, log_vars, learn_vars>>
       ELSE /\ recent_events' = SelectSeq(recent_events,
                                          LAMBDA ev : ~Expired(ev, now))
            /\ event_hash' = event_hash
                               \ {ev.event_id : ev \in
                                    {recent_events[i] : i \in
                                       {j \in 1..Len(recent_events) :
                                          Expired(recent_events[j], now)}}}
            /\ profiles' = [a \in 1..Len(profiles) |->
                              IF \E i \in 1..Len(process_profiles) :
                                    process_profiles[i] = a
                              THEN LearnedProfile(profiles[a], now)
                              ELSE profiles[a]]
            /\ threat_intel' = ThreatIntelligence(threat_intel, now)
            /\ last_learning_update' = now

\* Time passes.
Tick ==
    /\ now' = now + TickMs
    /\ UNCHANGED <<store_vars, log_vars, stat_vars, param_vars, conc_vars,
                   event_id_counter, learn_vars, passes, last>>

\* The bounds of a behaviour: events created, learning passes run, clock advances.
EventsLeft == event_id_counter <= MaxEvents
PassesLeft == passes < MaxPasses
TicksLeft == now < MaxTicks * TickMs

Next ==
    \/ /\ EventsLeft
       /\ \E pid \in Pids, prof_ok \in BOOLEAN, ev_ok \in BOOLEAN,
             payload \in Payloads : FilePermission(pid, prof_ok, ev_ok, payload)
    \/ /\ EventsLeft
       /\ \E pid \in Pids, ev_ok \in BOOLEAN : TaskCreate(pid, ev_ok)
    \/ /\ EventsLeft
       /\ \E pid \in Pids, changed \in BOOLEAN, ev_ok \in BOOLEAN :
             TaskFixSetuid(pid, changed, ev_ok)
    \/ PassesLeft /\ LearningWork
    \/ TicksLeft /\ Tick

Spec == Init /\ [][Next]_vars

(***************************************************************************)
(* SpecFn: classification and action selection as functions of the score   *)
(* and the threshold, over every score 0..100 and every threshold 0..101.  *)
(***************************************************************************)
InitFn ==
    /\ InitManager
    /\ ai_security_threat_threshold \in 0..101
    /\ ai_security_auto_response = TRUE
    /\ ai_security_learning_enabled = TRUE
    /\ fn \in {FnInput(s) : s \in 0..100}

ClassifyScore ==
    /\ ~fn.applied
    /\ fn' = [fn EXCEPT
                !.applied = TRUE,
                !.level = ai_security_classify_threat(fn.score),
                !.action = RecommendedAction(fn.score,
                                             ai_security_threat_threshold)]
    /\ UNCHANGED <<store_vars, log_vars, stat_vars, event_id_counter,
                   learn_vars, ai_security_threat_threshold,
                   ai_security_auto_response, ai_security_learning_enabled,
                   now, passes, last, conc_vars, twin>>

NextFn == ClassifyScore

SpecFn == InitFn /\ [][NextFn]_vars

(***************************************************************************)
(* SpecAnalyze: ai_security_analyze_event as a function of its event and   *)
(* of the profile it finds.  The profile of pid 2 is an input, drawn from   *)
(* values on both sides of every comparison of the scorer; pid 258 has a   *)
(* fresh profile and pid 1 has none.                                       *)
(***************************************************************************)
\* The binary32 value next below a > 0 with the same exponent.
FPred(a) == [m |-> a.m - 1, q |-> a.q]

\* The scores of a profile after events with the given scores, from the
\* values a new profile has.
RECURSIVE TrustAfter(_)
TrustAfter(scores) ==
    IF scores = <<>> THEN F_0_7
    ELSE UpdateTrust(TrustAfter(SubSeq(scores, 1, Len(scores) - 1)),
                     scores[Len(scores)])

RECURSIVE BehaviorAfter(_)
BehaviorAfter(scores) ==
    IF scores = <<>> THEN F_0_8
    ELSE UpdateBehavior(BehaviorAfter(SubSeq(scores, 1, Len(scores) - 1)),
                        scores[Len(scores)])

RECURSIVE RiskAfter(_)
RiskAfter(scores) ==
    IF scores = <<>> THEN F_0_2
    ELSE UpdateRisk(RiskAfter(SubSeq(scores, 1, Len(scores) - 1)),
                    scores[Len(scores)])

\* Inputs: values the scores take in runs of the hooks.
TrustInputs == {FZero, F_0_2, FPred(F_0_3), F_0_3, F_0_7}
AnomalyInputs == {0, 5, 6, 7}
\* No code of the file writes network_connection_count; the scorer reads it.
ConnectionInputs == {0, 100, 101}
BehaviorInputs == {FZero, BehaviorAfter(<<30, 60>>), BehaviorAfter(<<60, 30>>),
                   BehaviorAfter(<<30>>), F_0_8}
RiskInputs == {F_0_2, RiskAfter(<<30>>),
               RiskAfter(<<30, 60, 60, 60, 80, 80, 80, 95, 95, 95>>), F_1_0}

InputProfile(pid, trust, anomalies, connections, behavior, risk) ==
    [NewProfile(pid, 0) EXCEPT
       !.trust_score = trust,
       !.anomaly_count = anomalies,
       !.network_connection_count = connections,
       !.behavior_score = behavior,
       !.risk_score = risk]

InitAnalyze ==
    /\ \E trust \in TrustInputs, anomalies \in AnomalyInputs,
          connections \in ConnectionInputs, behavior \in BehaviorInputs,
          risk \in RiskInputs :
          profiles = <<InputProfile(2, trust, anomalies, connections,
                                    behavior, risk),
                       LinkedProfile(NewProfile(2 + AI_SECURITY_HASH_SIZE, 0), 1)>>
    /\ process_profiles = <<1, 2>>
    /\ profile_hash = [b \in Buckets |-> IF b = Bucket(2) THEN 2 ELSE NULL]
    /\ processes_monitored = 2
    /\ recent_events = <<>>
    /\ event_hash = {}
    /\ event_id_counter = 1
    /\ total_events_processed = 0
    /\ threats_detected = 0
    /\ threats_blocked = 0
    /\ last_learning_update = 0
    /\ threat_intel = [last_update |-> 0]
    /\ now = 0
    /\ passes = 0
    /\ last = Unscored("init")
    /\ cpu = [t \in Threads |-> Idle(0)]
    /\ profiles_lock = NULL
    /\ twin = NoTwin
    /\ DefaultParams
    /\ fn = FnInput(0)

\* ai_security_create_event(type), the event filled in for pid, and
\* ai_security_analyze_event on it.
AnalyzeEvent(pid, type, payload) ==
    /\ UNCHANGED <<param_vars, conc_vars, now, passes, learn_vars, log_vars,
                   stat_vars, process_profiles, profile_hash,
                   processes_monitored>>
    /\ event_id_counter' = event_id_counter + 1
    /\ LET addr == ai_security_get_profile(pid)
           ev   == NewEvent(event_id_counter + 1, type, pid, payload, now)
       IN  IF addr = NULL
           THEN /\ last' = [hook |-> "analyze_event", ret |-> 0,
                            scored |-> FALSE, event |-> UnprofiledEvent(ev),
                            alert |-> <<>>]
                /\ UNCHANGED profiles
           ELSE /\ last' = Scored("analyze_event", 0,
                              AnalyzedEvent(ev, profiles[addr],
                                            ai_security_threat_threshold))
                /\ profiles' = [profiles EXCEPT ![addr] = AnalyzedProfile(ev, @)]

NextAnalyze ==
    /\ event_id_counter = 1
    /\ \E pid \in Pids, type \in EventTypes, payload \in Payloads :
          AnalyzeEvent(pid, type, payload)

SpecAnalyze == InitAnalyze /\ [][NextAnalyze]_vars

(***************************************************************************)
(* SpecDeep: long runs of scored events of one process, with learning      *)
(* passes in between.                                                      *)
(***************************************************************************)
DeepEventsLeft == event_id_counter <= MaxDeepEvents
DeepPassesLeft == passes < MaxDeepPasses

NextDeep ==
    \/ DeepEventsLeft /\ FilePermission(2, TRUE, TRUE, "sensitive")
    \/ DeepEventsLeft /\ TaskCreate(2, TRUE)
    \/ DeepEventsLeft /\ TaskFixSetuid(2, TRUE, TRUE)
    \/ DeepPassesLeft /\ LearningWork

SpecDeep == Init /\ [][NextDeep]_vars

(***************************************************************************)
(* SpecLearn: learning passes without bound, around the scored events of   *)
(* one process.  A pass that restores no profile's trust is left out: it   *)
(* changes nothing here (the clock stands still and the log is young).     *)
(***************************************************************************)
LearnEventsLeft == event_id_counter <= MaxLearnEvents

NextLearn ==
    \/ LearnEventsLeft /\ FilePermission(2, TRUE, TRUE, "sensitive")
    \/ LearnEventsLeft /\ TaskFixSetuid(2, TRUE, TRUE)
    \/ /\ \E a \in 1..Len(profiles) : RestoresTrust(profiles[a])
       /\ LearningWork

SpecLearn == Init /\ [][NextLearn]_vars

(***************************************************************************)
(* SpecSettle: learning passes that go on after the trust of a profile has *)
(* been restored, around a few events of one process.                      *)
(***************************************************************************)
MaxSettleEvents == 2
MaxSettlePasses == 12

NextSettle ==
    \/ /\ event_id_counter <= MaxSettleEvents
       /\ \E payload \in {"plain", "sensitive"} :
             FilePermission(2, TRUE, TRUE, payload)
    \/ event_id_counter <= MaxSettleEvents /\ TaskFixSetuid(2, TRUE, TRUE)
    \/ passes < MaxSettlePasses /\ LearningWork

SpecSettle == Init /\ [][NextSettle]_vars

(***************************************************************************)
(* SpecOff: learning passes with learning enabled or disabled when the     *)
(* module is loaded, shortly after boot or more than a day after it,       *)
(* around a few events of one process and advances of the clock.           *)
(***************************************************************************)
MaxOffEvents == 2
MaxOffPasses == 2
MaxOffTicks == 2
BootTimes == {0, DayMs + 1}

InitOff ==
    /\ profiles = <<>>
    /\ process_profiles = <<>>
    /\ profile_hash = [b \in Buckets |-> NULL]
    /\ processes_monitored = 0
    /\ recent_events = <<>>
    /\ event_hash = {}
    /\ event_id_counter = 1
    /\ total_events_processed = 0
    /\ threats_detected = 0
    /\ threats_blocked = 0
    /\ last_learning_update = 0
    /\ threat_intel = [last_update |-> 0]
    /\ now \in BootTimes
    /\ passes = 0
    /\ last = Unscored("init")
    /\ cpu = [t \in Threads |-> Idle(0)]
    /\ profiles_lock = NULL
    /\ twin = NoTwin
    /\ ai_security_threat_threshold = AI_SECURITY_THREAT_SCORE_THRESHOLD
    /\ ai_security_auto_response = TRUE
    /\ ai_security_learning_enabled \in BOOLEAN
    /\ fn = FnInput(0)

NextOff ==
    \/ /\ event_id_counter <= MaxOffEvents
       /\ \E payload \in {"plain", "sensitive"} :
             FilePermission(2, TRUE, TRUE, payload)
    \/ event_id_counter <= MaxOffEvents /\ TaskFixSetuid(2, TRUE, TRUE)
    \/ passes < MaxOffPasses /\ LearningWork
    \/ /\ \E boot \in BootTimes :
             boot <= now /\ now < boot + MaxOffTicks * TickMs
       /\ Tick

SpecOff == InitOff /\ [][NextOff]_vars

(***************************************************************************)
(* SpecWrap: a long-lived process at the end of the range of its           *)
(* anomaly_count.  Process 2 was profiled by a file access at time 0, had  *)
(* its trust restored by learning passes, raised its privileges five times *)
(* (each time allowed, as in SpecLearn) and then read sensitive files      *)
(* until anomaly_count was 4294967295: by then its trust and behaviour     *)
(* scores are 0, its risk score 1.0, its threat score 65 and its           *)
(* event_count, of the same width, 0.  The clock has passed the retention  *)
(* time and a learning pass has emptied the event list.  event_id_counter  *)
(* and the statistics count from this state on.                            *)
(***************************************************************************)
MaxWrapEvents == 2
MaxWrapPasses == 31

WornProfile(pid, t) ==
    [NewProfile(pid, 0) EXCEPT
       !.privilege_escalation_count = 5,
       !.anomaly_count = -1,
       !.threat_score = 65,
       !.current_threat = AI_SECURITY_THREAT_MEDIUM,
       !.behavior_score = FZero,
       !.risk_score = F_1_0,
       !.trust_score = FZero,
       !.last_activity = t]

InitWrap ==
    /\ now = 2 * TickMs
    /\ profiles = <<WornProfile(2, now)>>
    /\ process_profiles = <<1>>
    /\ profile_hash = [b \in Buckets |-> IF b = Bucket(2) THEN 1 ELSE NULL]
    /\ processes_monitored = 1
    /\ recent_events = <<>>
    /\ event_hash = {}
    /\ event_id_counter = 1
    /\ total_events_processed = 0
    /\ threats_detected = 0
    /\ threats_blocked = 0
    /\ last_learning_update = now
    /\ threat_intel = [last_update |-> 0]
    /\ passes = 0
    /\ last = Unscored("init")
    /\ cpu = [t \in Threads |-> Idle(0)]
    /\ profiles_lock = NULL
    /\ twin = NoTwin
    /\ DefaultParams
    /\ fn = FnInput(0)

NextWrap ==
    \/ /\ event_id_counter <= MaxWrapEvents
       /\ FilePermission(2, TRUE, TRUE, "sensitive")
    \/ event_id_counter <= MaxWrapEvents /\ TaskFixSetuid(2, TRUE, TRUE)
    \/ passes < MaxWrapPasses /\ LearningWork

SpecWrap == InitWrap /\ [][NextWrap]_vars

(***************************************************************************)
(* SpecTwin: two submissions compared.  The threshold and automatic        *)
(* response are set when the module is loaded.  After some calls the       *)
(* profile of process 2 is recorded (Snapshot) and one event is submitted  *)
(* for it; the outcome is recorded and the profile put back as it was      *)
(* recorded (Rewind), in a manager whose event counter, statistics, event  *)
(* list, clock and other profile have moved on; then the same event is     *)
(* submitted again.                                                        *)
(***************************************************************************)
ThresholdInputs == {0, 30, 31, 60, AI_SECURITY_THREAT_SCORE_THRESHOLD, 101}

InitTwin ==
    /\ InitManager
    /\ ai_security_threat_threshold \in ThresholdInputs
    /\ ai_security_auto_response \in BOOLEAN
    /\ ai_security_learning_enabled = TRUE
    /\ fn = FnInput(0)

\* One hook call for pid in which every allocation succeeds.
Submit(pid, hook, payload) ==
    \/ hook = "file_permission" /\ FilePermission(pid, TRUE, TRUE, payload)
    \/ hook = "task_create" /\ payload = "none" /\ TaskCreate(pid, TRUE)
    \/ hook = "task_fix_setuid" /\ payload = "none"
          /\ TaskFixSetuid(pid, TRUE, TRUE)

TwinHooks == {"file_permission", "task_create", "task_fix_setuid"}

\* The second submission has been made.
SecondDone ==
    /\ twin.phase = "second"
    /\ last.scored /\ last.event.pid = 2
    /\ last.event.event_id > twin.out.event.event_id

Snapshot ==
    /\ twin.phase = "warm"
    /\ ai_security_get_profile(2) # NULL
    /\ twin' = [twin EXCEPT !.phase = "first", !.id = event_id_counter,
                            !.before = profiles[ai_security_get_profile(2)]]
    /\ UNCHANGED <<store_vars, log_vars, stat_vars, event_id_counter,
                   learn_vars, ai_security_threat_threshold,
                   ai_security_auto_response, ai_security_learning_enabled,
                   now, passes, last, conc_vars, fn>>

Rewind ==
    /\ twin.phase = "first"
    /\ event_id_counter > twin.id
    /\ twin' = [twin EXCEPT !.phase = "second", !.out = last,
                            !.after = profiles[ai_security_get_profile(2)]]
    /\ profiles' = [profiles EXCEPT ![ai_security_get_profile(2)] = twin.before]
    /\ UNCHANGED <<process_profiles, profile_hash, processes_monitored,
                   log_vars, stat_vars, event_id_counter,
                   learn_vars, ai_security_threat_threshold,
                   ai_security_auto_response, ai_security_learning_enabled,
                   now, passes, last, conc_vars, fn>>

NextTwin ==
    \/ /\ twin.phase = "warm"
       /\ event_id_counter <= MaxTwinEvents
       /\ \E pid \in {2, 2 + AI_SECURITY_HASH_SIZE}, hook \in TwinHooks,
             payload \in {"none", "sensitive"} : Submit(pid, hook, payload)
    \/ twin.phase = "warm" /\ passes < MaxTwinPasses /\ LearningWork
    \/ ~SecondDone /\ TicksLeft /\ Tick
    \/ Snapshot
    \/ /\ twin.phase = "first"
       /\ event_id_counter = twin.id
       /\ \E hook \in TwinHooks, payload \in {"none", "sensitive"} :
             Submit(2, hook, payload)
    \/ Rewind
    \/ /\ twin.phase = "second" /\ ~SecondDone
       /\ event_id_counter <= twin.id + 1
       /\ \E hook \in TwinHooks : Submit(2 + AI_SECURITY_HASH_SIZE, hook, "none")
    \/ /\ twin.phase = "second" /\ ~SecondDone
       /\ Submit(2, twin.out.hook, twin.out.event.payload)

SpecTwin == InitTwin /\ [][NextTwin]_vars

(***************************************************************************)
(* SpecMany: one process after the other makes its first file access, one  *)
(* process more than AI_SECURITY_MAX_PROFILES, with the hash table at its  *)
(* full size.                                                              *)
(***************************************************************************)
ManyPids == 2..(AI_SECURITY_MAX_PROFILES + 2)

InitMany ==
    /\ profiles = <<>>
    /\ process_profiles = <<>>
    /\ profile_hash = [b \in 0..(AI_SECURITY_HASH_SIZE - 1) |-> NULL]
    /\ processes_monitored = 0
    /\ recent_events = <<>>
    /\ event_hash = {}
    /\ event_id_counter = 1
    /\ total_events_processed = 0
    /\ threats_detected = 0
    /\ threats_blocked = 0
    /\ last_learning_update = 0
    /\ threat_intel = [last_update |-> 0]
    /\ now = 0
    /\ passes = 0
    /\ last = Unscored("init")
    /\ cpu = [t \in Threads |-> Idle(0)]
    /\ profiles_lock = NULL
    /\ twin = NoTwin
    /\ DefaultParams
    /\ fn = FnInput(0)

NextMany ==
    \E pid \in ManyPids :
       /\ pid = 2 + Len(profiles)
       /\ FilePermission(pid, TRUE, TRUE, "none")

SpecMany == InitMany /\ [][NextMany]_vars

(***************************************************************************)
(* SpecConc: ai_security_file_permission on several CPUs at once, one step *)
(* per access to the shared profile store.  The tasks are in one bucket.   *)
(***************************************************************************)
At(t, pc) == cpu[t].pc = pc

\* The hook calls made so far by the CPUs of set S.
RECURSIVE Calls(_)
Calls(S) == IF S = {} THEN 0
            ELSE LET t == CHOOSE x \in S : TRUE
                 IN  cpu[t].calls + Calls(S \ {t})

\* The hook returns 0 on CPU t without having scored an event.
ReturnUnscored(t, why) ==
    /\ cpu' = [cpu EXCEPT ![t] = Idle(@.calls)]
    /\ last' = Unscored(why)

\* The hook is entered for task pid: "Skip system processes".
FpEnter(t, pid) ==
    /\ At(t, "idle")
    /\ Calls(Threads) < MaxCalls
    /\ cpu' = [cpu EXCEPT ![t] =
                 [pc |-> IF ai_security_is_system_process(pid)
                         THEN "idle" ELSE "fp_get",
                  pid |-> IF ai_security_is_system_process(pid) THEN 0 ELSE pid,
                  profile |-> NULL, first |-> NULL, calls |-> @.calls + 1]]
    /\ UNCHANGED <<store_vars, log_vars, stat_vars, param_vars, profiles_lock,
                   event_id_counter, learn_vars, now, passes, last>>

\* "Get or create process profile": the hook's first lookup.
FpGetProfile(t) ==
    /\ At(t, "fp_get")
    /\ cpu' = [cpu EXCEPT ![t].pc =
                 IF ai_security_get_profile(cpu[t].pid) # NULL
                 THEN "fp_event" ELSE "cp_check"]
    /\ UNCHANGED <<store_vars, log_vars, stat_vars, param_vars, profiles_lock,
                   event_id_counter, learn_vars, now, passes, last>>

\* ai_security_create_profile: "Check if profile already exists".
CpCheck(t) ==
    /\ At(t, "cp_check")
    /\ cpu' = [cpu EXCEPT ![t].pc =
                 IF ai_security_get_profile(cpu[t].pid) # NULL
                 THEN "fp_reget" ELSE "cp_alloc"]
    /\ UNCHANGED <<store_vars, log_vars, stat_vars, param_vars, profiles_lock,
                   event_id_counter, learn_vars, now, passes, last>>

\* ai_security_create_profile: kzalloc and the initialisation of the profile.
CpAlloc(t, ok) ==
    /\ At(t, "cp_alloc")
    /\ IF ok
       THEN /\ profiles' = Append(profiles, NewProfile(cpu[t].pid, now))
            /\ cpu' = [cpu EXCEPT ![t].pc = "cp_lock",
                                  ![t].profile = Len(profiles) + 1]
       ELSE /\ cpu' = [cpu EXCEPT ![t].pc = "fp_reget"]
            /\ UNCHANGED profiles
    /\ UNCHANGED <<process_profiles, profile_hash, processes_monitored, log_vars,
                   stat_vars, param_vars, profiles_lock, event_id_counter,
                   learn_vars, now, passes, last>>

\* ai_security_create_profile: spin_lock(&ai_sec_mgr->profiles_lock).
CpLock(t) ==
    /\ At(t, "cp_lock")
    /\ profiles_lock = NULL
    /\ profiles_lock' = t
    /\ cpu' = [cpu EXCEPT ![t].pc = "cp_list"]
    /\ UNCHANGED <<store_vars, log_vars, stat_vars, param_vars,
                   event_id_counter, learn_vars, now, passes, last>>

\* ai_security_create_profile: list_add_tail, processes_monitored++,
\* spin_unlock.
CpListAdd(t) ==
    /\ At(t, "cp_list")
    /\ process_profiles' = Append(process_profiles, cpu[t].profile)
    /\ processes_monitored' = processes_monitored + 1
    /\ profiles_lock' = NULL
    /\ cpu' = [cpu EXCEPT ![t].pc = "cp_hash_read"]
    /\ UNCHANGED <<profiles, profile_hash, log_vars, stat_vars, param_vars,
                   event_id_counter, learn_vars, now, passes, last>>

\* ai_security_add_to_hash, outside the lock: hlist_add_head_rcu reads the
\* head of the bucket ...
CpHashRead(t) ==
    /\ At(t, "cp_hash_read")
    /\ cpu' = [cpu EXCEPT ![t].pc = "cp_hash_write",
                          ![t].first = profile_hash[Bucket(cpu[t].pid)]]
    /\ UNCHANGED <<store_vars, log_vars, stat_vars, param_vars, profiles_lock,
                   event_id_counter, learn_vars, now, passes, last>>

\* ... and links the profile in front of the head it read.
CpHashWrite(t) ==
    /\ At(t, "cp_hash_write")
    /\ profiles' = [profiles EXCEPT
                      ![cpu[t].profile] = LinkedProfile(@, cpu[t].first)]
    /\ profile_hash' = [profile_hash EXCEPT
                          ![Bucket(cpu[t].pid)] = cpu[t].profile]
    /\ cpu' = [cpu EXCEPT ![t].pc = "fp_reget"]
    /\ UNCHANGED <<process_profiles, processes_monitored, log_vars, stat_vars,
                   param_vars, profiles_lock, event_id_counter,
                   learn_vars, now, passes, last>>

\* The hook's lookup after ai_security_create_profile: "if (!profile) return 0".
FpReget(t) ==
    /\ At(t, "fp_reget")
    /\ IF ai_security_get_profile(cpu[t].pid) = NULL
       THEN ReturnUnscored(t, "enomem")
       ELSE /\ cpu' = [cpu EXCEPT ![t].pc = "fp_event"]
            /\ UNCHANGED last
    /\ UNCHANGED <<store_vars, log_vars, stat_vars, param_vars, profiles_lock,
                   event_id_counter, learn_vars, now, passes>>

\* The rest of the hook: "Create security event", "Make security decision"
\* (ai_security_analyze_event looks the profile up again), "Add to recent
\* events".
FpEvent(t, ev_ok, payload) ==
    /\ At(t, "fp_event")
    /\ payload \in {"plain", "sensitive"}
    /\ Reached(ev_ok, payload # "plain")
    /\ cpu' = [cpu EXCEPT ![t] = Idle(@.calls)]
    /\ UNCHANGED <<process_profiles, profile_hash, processes_monitored,
                   param_vars, profiles_lock, learn_vars, now, passes>>
    /\ LET addr == ai_security_get_profile(cpu[t].pid)
           ev   == NewEvent(event_id_counter + 1, "FILE_ACCESS", cpu[t].pid,
                            payload, now)
           done == IF addr = NULL THEN UnprofiledEvent(ev)
                   ELSE AnalyzedEvent(ev, profiles[addr],
                                      ai_security_threat_threshold)
           deny == Decision(done, ai_security_threat_threshold,
                            ai_security_auto_response)
       IN  IF ~ev_ok
           THEN /\ last' = Unscored("enomem")
                /\ UNCHANGED <<profiles, log_vars, stat_vars, event_id_counter>>
           ELSE /\ event_id_counter' = event_id_counter + 1
                /\ profiles' = IF addr = NULL THEN profiles
                               ELSE [profiles EXCEPT
                                       ![addr] = AnalyzedProfile(ev, @)]
                /\ UpdateStatistics(done, deny)
                /\ Retain(done, 20)
                /\ last' = [Scored("file_permission",
                                   IF deny = 1 THEN -13 ELSE 0, done)
                              EXCEPT !.scored = addr # NULL]

NextConc ==
    \/ \E t \in Threads, pid \in Pids : FpEnter(t, pid)
    \/ \E t \in Threads : FpGetProfile(t)
    \/ \E t \in Threads : CpCheck(t)
    \/ \E t \in Threads, ok \in BOOLEAN : CpAlloc(t, ok)
    \/ \E t \in Threads : CpLock(t)
    \/ \E t \in Threads : CpListAdd(t)
    \/ \E t \in Threads : CpHashRead(t)
    \/ \E t \in Threads : CpHashWrite(t)
    \/ \E t \in Threads : FpReget(t)
    \/ \E t \in Threads, ev_ok \in BOOLEAN, payload \in Payloads :
          FpEvent(t, ev_ok, payload)

SpecConc == Init /\ [][NextConc]_vars

(***************************************************************************)
(* SpecRace: hook calls for one profiled process on several CPUs while the *)
(* learning pass runs on a worker, one step per critical section and per   *)
(* unlocked access to the manager.  A hook call creates its event (the id  *)
(* from atomic64_inc_return), analyses it under the profile's lock,        *)
(* decides, updates each statistics counter by a load and a store (the     *)
(* counters are plain u64 fields, updated outside every lock), and adds    *)
(* the event to recent_events under events_lock.  The pass reads the clock,*)
(* prunes recent_events under events_lock, then updates the profiles.  The *)
(* clock advances in steps of TickMs; a hook call lasts less than two of   *)
(* them.  The process's profile exists from the start: it was created by   *)
(* an earlier file access whose event could not be allocated.              *)
(***************************************************************************)
Learner == 0

RaceIdle(calls) == [pc |-> "idle", calls |-> calls, hook |-> "none",
                    event |-> NoEvent, deny |-> 0, stat |-> "none", reg |-> 0]

InitRace ==
    /\ profiles = <<NewProfile(2, 0)>>
    /\ process_profiles = <<1>>
    /\ profile_hash = [b \in Buckets |-> IF b = Bucket(2) THEN 1 ELSE NULL]
    /\ processes_monitored = 1
    /\ recent_events = <<>>
    /\ event_hash = {}
    /\ event_id_counter = 1
    /\ total_events_processed = 0
    /\ threats_detected = 0
    /\ threats_blocked = 0
    /\ last_learning_update = 0
    /\ threat_intel = [last_update |-> 0]
    /\ now = 0
    /\ passes = 0
    /\ last = Unscored("enomem")
    /\ cpu = [t \in Threads \cup {Learner} |-> RaceIdle(0)]
    /\ profiles_lock = NULL
    /\ twin = NoTwin
    /\ DefaultParams
    /\ fn = FnInput(0)

\* What a step of SpecRace leaves alone besides the variables it names.
race_fixed == <<param_vars, process_profiles, profile_hash,
                processes_monitored, profiles_lock>>

\* atomic64_inc_return(&event_id_counter): the counter's new value.
AtomicReadOnly(v) == v

atomic64_inc_return(v) == v + 1

\* The hook up to ai_security_create_event and the event's details.
RcCreate(t, hook) ==
    /\ At(t, "idle")
    /\ Calls(Threads) + Cardinality({u \in Threads : ~At(u, "idle")}) < MaxRaceCalls
    /\ hook \in {"file_permission", "task_fix_setuid"}
    /\ event_id_counter' = atomic64_inc_return(event_id_counter)
    /\ cpu' = [cpu EXCEPT ![t] =
                 [@ EXCEPT !.pc = "analyze", !.hook = hook,
                           !.event =
                              IF hook = "file_permission"
                              THEN NewEvent(atomic64_inc_return(event_id_counter),
                                            "FILE_ACCESS", 2, "sensitive", now)
                              ELSE NewEvent(atomic64_inc_return(event_id_counter),
                                            "PRIVILEGE_ESCALATION", 2, "none",
                                            now)]]
    /\ UNCHANGED <<race_fixed, profiles, log_vars, stat_vars,
                   learn_vars, now, passes, last>>

\* The counter ai_security_make_decision updates after stat, for the event
\* ev and the decision deny; "none" after the last.
NextStat(stat, ev, deny) ==
    IF stat = "total" /\ ev.threat_score > 30 THEN "detected"
    ELSE IF stat \in {"total", "detected"} /\ deny = 1
              /\ ev.recommended_action # AI_SECURITY_ACTION_WARN
         THEN "blocked"
    ELSE "none"

\* ai_security_analyze_event under the profile's lock, and the decision.
RcAnalyze(t) ==
    /\ At(t, "analyze")
    /\ LET addr == ai_security_get_profile(cpu[t].event.pid)
           done == AnalyzedEvent(cpu[t].event, profiles[addr],
                                 ai_security_threat_threshold)
       IN  /\ profiles' = [profiles EXCEPT
                             ![addr] = AnalyzedProfile(cpu[t].event, @)]
           /\ cpu' = [cpu EXCEPT ![t] =
                        [@ EXCEPT !.pc = "load", !.stat = "total",
                                  !.event = done,
                                  !.deny = Decision(done,
                                              ai_security_threat_threshold,
                                              ai_security_auto_response)]]
    /\ UNCHANGED <<race_fixed, log_vars, stat_vars, event_id_counter,
                   learn_vars, now, passes, last>>

\* The read of counter++.
RcLoad(t) ==
    /\ At(t, "load")
    /\ cpu' = [cpu EXCEPT ![t] =
                 [@ EXCEPT !.pc = "store",
                           !.reg = CASE cpu[t].stat = "total" ->
                                           total_events_processed
                                     [] cpu[t].stat = "detected" ->
                                           threats_detected
                                     [] OTHER -> threats_blocked]]
    /\ UNCHANGED <<race_fixed, profiles, log_vars, stat_vars,
                   event_id_counter, learn_vars, now, passes, last>>

\* The write of counter++.
RcStore(t) ==
    /\ At(t, "store")
    /\ total_events_processed' =
          IF cpu[t].stat = "total" THEN cpu[t].reg + 1
                                   ELSE total_events_processed
    /\ threats_detected' =
          IF cpu[t].stat = "detected" THEN cpu[t].reg + 1 ELSE threats_detected
    /\ threats_blocked' =
          IF cpu[t].stat = "blocked" THEN cpu[t].reg + 1 ELSE threats_blocked
    /\ LET next == NextStat(cpu[t].stat, cpu[t].event, cpu[t].deny)
       IN  cpu' = [cpu EXCEPT ![t] =
                     [@ EXCEPT !.pc = IF next = "none" THEN "retain" ELSE "load",
                               !.stat = next, !.reg = 0]]
    /\ UNCHANGED <<race_fixed, profiles, log_vars, event_id_counter,
                   learn_vars, now, passes, last>>

\* "Add to recent events" under events_lock, or ai_security_free_event, and
\* the return.
RcRetain(t) ==
    /\ At(t, "retain")
    /\ Retain(cpu[t].event,
              IF cpu[t].hook = "file_permission" THEN 20 ELSE 30)
    /\ cpu' = [cpu EXCEPT ![t] = RaceIdle(@.calls + 1)]
    /\ UNCHANGED <<race_fixed, profiles, stat_vars, event_id_counter,
                   learn_vars, now, passes, last>>

\* ai_security_learning_work up to the read of the clock.
LwStart ==
    /\ At(Learner, "idle")
    /\ passes < MaxRacePasses
    /\ ai_security_learning_enabled
    /\ cpu' = [cpu EXCEPT ![Learner] = [@ EXCEPT !.pc = "prune", !.reg = now]]
    /\ UNCHANGED <<race_fixed, profiles, log_vars, stat_vars,
                   event_id_counter, learn_vars, now, passes, last>>

\* A pruning that leaves its critical section without
\* spin_unlock_irqrestore.
LwPruneHolding ==
    /\ At(Learner, "prune")
    /\ recent_events' = SelectSeq(recent_events,
                                  LAMBDA ev : ~Expired(ev, cpu[Learner].reg))
    /\ event_hash' = event_hash
                       \ {recent_events[i].event_id :
                            i \in {j \in 1..Len(recent_events) :
                                     Expired(recent_events[j], cpu[Learner].reg)}}
    /\ cpu' = [cpu EXCEPT ![Learner] = [@ EXCEPT !.pc = "profiles"]]
    /\ UNCHANGED <<race_fixed, profiles, stat_vars, event_id_counter,
                   learn_vars, now, passes, last>>

\* "Remove events older than 1 hour", under events_lock.
LwPrune ==
    /\ At(Learner, "prune")
    /\ recent_events' = SelectSeq(recent_events,
                                  LAMBDA ev : ~Expired(ev, cpu[Learner].reg))
    /\ event_hash' = event_hash
                       \ {recent_events[i].event_id :
                            i \in {j \in 1..Len(recent_events) :
                                     Expired(recent_events[j], cpu[Learner].reg)}}
    /\ cpu' = [cpu EXCEPT ![Learner] =
                 [@ EXCEPT !.pc = "profiles", !.stat = "none"]]
    /\ UNCHANGED <<race_fixed, profiles, stat_vars, event_id_counter,
                   learn_vars, now, passes, last>>

\* The update of the profiles, each under its lock, and the end of the pass.
LwProfiles ==
    /\ At(Learner, "profiles")
    /\ profiles' = [a \in 1..Len(profiles) |->
                      LearnedProfile(profiles[a], cpu[Learner].reg)]
    /\ threat_intel' = ThreatIntelligence(threat_intel, cpu[Learner].reg)
    /\ last_learning_update' = cpu[Learner].reg
    /\ passes' = passes + 1
    /\ cpu' = [cpu EXCEPT ![Learner] = RaceIdle(0)]
    /\ UNCHANGED <<race_fixed, log_vars, stat_vars, event_id_counter, now,
                   last>>

\* The clock advances; no hook call in flight sees a second advance.
RaceTick ==
    /\ now < MaxRaceTicks * TickMs
    /\ \A t \in Threads : At(t, "idle") \/ cpu[t].event.timestamp = now
    /\ now' = now + TickMs
    /\ UNCHANGED <<race_fixed, profiles, log_vars, stat_vars,
                   event_id_counter, learn_vars, passes, last, cpu>>

NextRace ==
    \/ \E t \in Threads, hook \in {"file_permission", "task_fix_setuid"} :
          RcCreate(t, hook)
    \/ \E t \in Threads : RcAnalyze(t)
    \/ \E t \in Threads : RcLoad(t)
    \/ \E t \in Threads : RcStore(t)
    \/ \E t \in Threads : RcRetain(t)
    \/ LwStart
    \/ LwPrune
    \/ LwProfiles
    \/ RaceTick

SpecRace == InitRace /\ [][NextRace]_vars

(***************************************************************************)
(* SpecLock: the steps of SpecRace with the spinlocks of the critical      *)
(* sections taken in steps of their own, the clock standing still.  A      *)
(* worker (a CPU in a hook, or the learning pass) that has arrived at      *)
(* spin_lock_irqsave takes the lock when no other worker holds it, and     *)
(* spins until then; the step of the critical section releases it.  stat   *)
(* "locked" marks the worker that holds the lock of the section at its pc. *)
(***************************************************************************)
\* The lock of the critical section worker w is at: the profile's lock for
\* ai_security_analyze_event and for the pass's update of the profile,
\* events_lock for the append of an event that is kept and for the pruning.
LockAt(w) ==
    CASE cpu[w].pc \in {"analyze", "profiles"} -> "profile->lock"
      [] cpu[w].pc = "prune" -> "events_lock"
      [] cpu[w].pc = "retain"
           /\ cpu[w].event.threat_score
                 > (IF cpu[w].hook = "file_permission" THEN 20 ELSE 30)
           -> "events_lock"
      [] OTHER -> "none"

Holds(w) == cpu[w].stat = "locked"

\* w is in spin_lock_irqsave and has not got the lock.
Waits(w) == LockAt(w) # "none" /\ ~Holds(w)

spin_lock_irqsave(w) ==
    /\ Waits(w)
    /\ \A u \in (Threads \cup {Learner}) \ {w} :
          ~(Holds(u) /\ LockAt(u) = LockAt(w))
    /\ cpu' = [cpu EXCEPT ![w] = [@ EXCEPT !.stat = "locked"]]
    /\ UNCHANGED <<race_fixed, profiles, log_vars, stat_vars,
                   event_id_counter, learn_vars, now, passes, last>>

NextLock ==
    \/ \E t \in Threads, hook \in {"file_permission", "task_fix_setuid"} :
          RcCreate(t, hook)
    \/ \E w \in Threads \cup {Learner} : spin_lock_irqsave(w)
    \/ \E t \in Threads : Holds(t) /\ RcAnalyze(t)
    \/ \E t \in Threads : RcLoad(t)
    \/ \E t \in Threads : RcStore(t)
    \/ \E t \in Threads : ~Waits(t) /\ RcRetain(t)
    \/ LwStart
    \/ Holds(Learner) /\ LwPrune
    \/ Holds(Learner) /\ LwProfiles

SpecLock == InitRace /\ [][NextLock]_vars

(***************************************************************************)
(* SpecFair: the steps of SpecLock in a shorter behaviour, with CPUs that  *)
(* keep executing: a worker in a call is not stopped for ever               *)
(* (spin_lock_irqsave disables preemption and interrupts, and the hooks    *)
(* and the pass do not sleep in the steps modelled).  Whether a hook is    *)
(* called, or a pass started, is left open.                                *)
(***************************************************************************)
MaxFairCalls == 2

\* A step of a worker that is in a call.
RunLock ==
    \/ \E w \in Threads \cup {Learner} : spin_lock_irqsave(w)
    \/ \E t \in Threads : Holds(t) /\ RcAnalyze(t)
    \/ \E t \in Threads : RcLoad(t)
    \/ \E t \in Threads : RcStore(t)
    \/ \E t \in Threads : ~Waits(t) /\ RcRetain(t)
    \/ Holds(Learner) /\ LwPrune
    \/ Holds(Learner) /\ LwProfiles

NextFair ==
    \/ /\ Calls(Threads) + Cardinality({u \in Threads : ~At(u, "idle")})
             < MaxFairCalls
       /\ \E t \in Threads, hook \in {"file_permission", "task_fix_setuid"} :
             RcCreate(t, hook)
    \/ LwStart
    \/ RunLock

SpecFair == InitRace /\ [][NextFair]_vars /\ WF_vars(RunLock)

(***************************************************************************)
(* Properties.                                                             *)
(***************************************************************************)
\* C1 (SpecConc), as the specification states it: whatever the interleaving
\* of the CPUs' get-or-create calls, no two profiles of the list, and no two
\* profiles on a hash chain, are of the same pid, and processes_monitored is
\* the number of pids that have a profile.
C1_OneProfilePerSubject ==
    /\ \A i, j \in 1..Len(process_profiles) :
          profiles[process_profiles[i]].pid = profiles[process_profiles[j]].pid
             => i = j
    /\ \A b \in Buckets :
          LET chain == Chain(profiles, profile_hash[b], Len(profiles))
          IN  \A i, j \in 1..Len(chain) :
                 profiles[chain[i]].pid = profiles[chain[j]].pid => i = j
    /\ processes_monitored =
          Cardinality({profiles[process_profiles[i]].pid :
                          i \in 1..Len(process_profiles)})

\* C2 (SpecAnalyze): whatever the profile and the event type, an event that
\* ai_security_analyze_event has analysed has a threat score in 0..100 and a
\* confidence in 0..100.
C2_ScoreAndConfidenceInRange ==
    last.hook = "analyze_event" =>
       /\ last.event.threat_score \in 0..100
       /\ last.event.confidence \in 0..100

\* The highest score and the highest confidence have been given.
C2_Witness ==
    /\ last.hook = "analyze_event"
    /\ last.scored
    /\ last.event.threat_score = 95
    /\ last.event.confidence = 80

\* C3 (SpecFn): classification gives every score of 0..100 one level: Critical
\* from 90, High for 70..89, Medium for 50..69, Low for 25..49, None for
\* 0..24; and no lower score has a higher level.
C3_ClassifyTotalMonotone ==
    fn.applied =>
          /\ fn.level \in {AI_SECURITY_THREAT_NONE, AI_SECURITY_THREAT_LOW,
                           AI_SECURITY_THREAT_MEDIUM, AI_SECURITY_THREAT_HIGH,
                           AI_SECURITY_THREAT_CRITICAL}
          /\ fn.level = AI_SECURITY_THREAT_CRITICAL <=> fn.score >= 90
          /\ fn.level = AI_SECURITY_THREAT_HIGH <=> fn.score \in 70..89
          /\ fn.level = AI_SECURITY_THREAT_MEDIUM <=> fn.score \in 50..69
          /\ fn.level = AI_SECURITY_THREAT_LOW <=> fn.score \in 25..49
          /\ fn.level = AI_SECURITY_THREAT_NONE <=> fn.score \in 0..24
          /\ \A lower \in 0..fn.score :
                ai_security_classify_threat(lower) <= fn.level

\* Score 90, the first Critical one, has been classified.
C3_Witness ==
    /\ fn.applied
    /\ fn.score = 90
    /\ fn.level = AI_SECURITY_THREAT_CRITICAL

\* C4 (SpecFn): for every score of 0..100 and every threshold the recommended
\* action is: at or above the threshold, Terminate from 90, Block from 80,
\* Quarantine below 80; under the threshold, Warn from 50 and Allow below 50.
C4_ActionTable ==
    fn.applied =>
       LET score == fn.score
           threshold == ai_security_threat_threshold
       IN  /\ score >= threshold /\ score >= 90
                => fn.action = AI_SECURITY_ACTION_TERMINATE
           /\ score >= threshold /\ score \in 80..89
                => fn.action = AI_SECURITY_ACTION_BLOCK
           /\ score >= threshold /\ score < 80
                => fn.action = AI_SECURITY_ACTION_QUARANTINE
           /\ score < threshold /\ score >= 50
                => fn.action = AI_SECURITY_ACTION_WARN
           /\ score < threshold /\ score < 50
                => fn.action = AI_SECURITY_ACTION_ALLOW

\* A score equal to the threshold has been given its action.
C4_Witness ==
    /\ fn.applied
    /\ fn.score = 75
    /\ ai_security_threat_threshold = 75
    /\ fn.action = AI_SECURITY_ACTION_QUARANTINE

\* C5 (SpecAnalyze): the score of an event analysed against a profile is
\* min(100, base + adjustments): base 30 for a FileAccess that matches the
\* sensitive pattern, 25 for a NetworkConnect when the profile's connection
\* counter exceeds 100, 60 for a PrivilegeEscalation, 40 for a ProcessExec
\* from a transient directory, 0 otherwise; +20 iff the profile's trust is
\* below 0.3 and +15 iff its anomaly count exceeds 5, both as they were
\* before the event updated the profile.
C5_ScoreFormula ==
    [][last'.hook = "analyze_event" /\ last'.scored =>
          LET ev   == last'.event
              prof == profiles[ai_security_get_profile(ev.pid)]
              base == IF ev.type = "FILE_ACCESS" /\ ev.payload = "sensitive"
                      THEN 30
                      ELSE IF ev.type = "NETWORK_CONNECT"
                              /\ prof.network_connection_count > 100
                      THEN 25
                      ELSE IF ev.type = "PRIVILEGE_ESCALATION" THEN 60
                      ELSE IF ev.type = "PROCESS_EXEC" /\ ev.payload = "tmp"
                      THEN 40
                      ELSE 0
              low_trust == IF FLess(prof.trust_score, F_0_3) THEN 20 ELSE 0
              anomalous == IF prof.anomaly_count > 5 THEN 15 ELSE 0
          IN  ev.threat_score = Min(100, base + low_trust + anomalous)]_vars

\* A PrivilegeEscalation of a process whose trust was 0.2 has been scored 80,
\* High, Block.
C5_Witness ==
    /\ last.hook = "analyze_event"
    /\ last.scored
    /\ last.event.type = "PRIVILEGE_ESCALATION"
    /\ last.event.pid = 2
    /\ last.event.threat_score = 80
    /\ last.event.threat_level = AI_SECURITY_THREAT_HIGH
    /\ last.event.recommended_action = AI_SECURITY_ACTION_BLOCK
    /\ profiles[1].trust_score = FMax(FZero, FSub(F_0_2, FDivInt(80, 500)))

\* C6 (SpecAnalyze): an event analysed with score S against a profile leaves
\* that profile with risk = min(1, risk + S/1000), trust = max(0, trust -
\* S/500), behavior = max(0, behavior - S/200), each operation rounded as C
\* rounds a float, and leaves the three scores of every other profile alone.
C6_ProfileUpdate ==
    [][last'.hook = "analyze_event" /\ last'.scored =>
          LET a == ai_security_get_profile(last'.event.pid)
              S == last'.event.threat_score
          IN  /\ profiles'[a].risk_score =
                    FMin(F_1_0, FAdd(profiles[a].risk_score, Div1000[S]))
              /\ profiles'[a].trust_score =
                    FMax(FZero, FSub(profiles[a].trust_score, Div500[S]))
              /\ profiles'[a].behavior_score =
                    FMax(FZero, FSub(profiles[a].behavior_score, Div200[S]))
              /\ \A b \in 1..Len(profiles) \ {a} :
                    /\ profiles'[b].risk_score = profiles[b].risk_score
                    /\ profiles'[b].trust_score = profiles[b].trust_score
                    /\ profiles'[b].behavior_score = profiles[b].behavior_score]_vars

\* An event of score 95 has driven the three scores of its profile onto their
\* clamps, next to a profile it left as created.
C6_Witness ==
    /\ last.hook = "analyze_event"
    /\ last.scored
    /\ last.event.pid = 2
    /\ last.event.threat_score = 95
    /\ profiles[1].risk_score = F_1_0
    /\ profiles[1].trust_score = FZero
    /\ profiles[1].behavior_score = FZero
    /\ profiles[2].risk_score = F_0_2
    /\ profiles[2].trust_score = F_0_7
    /\ profiles[2].behavior_score = F_0_8

\* C7 (SpecAnalyze): an event analysed against a profile adds exactly 1 to
\* the profile's anomaly_count if its final score exceeds 30, and leaves the
\* count as it was if the score is 30 or less.
C7_AnomalyCount ==
    [][last'.hook = "analyze_event" /\ last'.scored =>
          LET a == ai_security_get_profile(last'.event.pid)
          IN  /\ last'.event.threat_score > 30
                   => profiles'[a].anomaly_count = profiles[a].anomaly_count + 1
              /\ last'.event.threat_score <= 30
                   => profiles'[a].anomaly_count = profiles[a].anomaly_count]_vars

\* An event of score exactly 30 has left an anomaly count of 5 at 5.
C7_Witness ==
    /\ last.hook = "analyze_event"
    /\ last.scored
    /\ last.event.pid = 2
    /\ last.event.threat_score = 30
    /\ profiles[1].anomaly_count = 5

\* C8 (SpecLearn): in every state, after any events and learning passes, the
\* trust, risk and behavior scores of every profile are in [0, 1].
C8_ScoresInUnitRange ==
    \A a \in 1..Len(profiles) :
       /\ FLeq(FZero, profiles[a].trust_score)
       /\ FLeq(profiles[a].trust_score, F_1_0)
       /\ FLeq(FZero, profiles[a].risk_score)
       /\ FLeq(profiles[a].risk_score, F_1_0)
       /\ FLeq(FZero, profiles[a].behavior_score)
       /\ FLeq(profiles[a].behavior_score, F_1_0)

\* Events have driven a profile's scores onto all three clamps.
C8_Witness ==
    /\ Len(profiles) = 1
    /\ profiles[1].risk_score = F_1_0
    /\ profiles[1].trust_score = FZero
    /\ profiles[1].behavior_score = FZero

\* C9 (SpecDeep): a step that raises a profile's trust is a learning pass on
\* a profile whose anomaly_count is 0, a step that lowers a profile's risk is
\* a learning pass, and a step that scores an event raises no trust and
\* lowers no risk.
C9_TrustRisesOnlyByLearning ==
    [][\A a \in 1..Len(profiles) :
          /\ FLess(profiles[a].trust_score, profiles'[a].trust_score)
                => passes' = passes + 1 /\ profiles[a].anomaly_count = 0
          /\ FLess(profiles'[a].risk_score, profiles[a].risk_score)
                => passes' = passes + 1
          /\ event_id_counter' # event_id_counter
                => /\ FLeq(profiles'[a].trust_score, profiles[a].trust_score)
                   /\ FLeq(profiles[a].risk_score, profiles'[a].risk_score)]_vars

\* A learning pass has raised the trust and lowered the risk of a profile
\* without anomalies, after an event of score 30.
C9_Witness ==
    /\ passes = 1
    /\ Len(profiles) = 1
    /\ profiles[1].anomaly_count = 0
    /\ profiles[1].event_count = 1
    /\ profiles[1].trust_score = FAdd(FSub(F_0_7, FDivInt(30, 500)), F_0_01)
    /\ profiles[1].risk_score = FSub(FAdd(F_0_2, FDivInt(30, 1000)), F_0_005)

\* C10 (SpecLearn), as the specification states it: no learning pass takes a
\* profile's trust above 0.8.  (Events only lower trust and a profile starts
\* at 0.7, so trust above 0.8 in any state is the work of a learning pass.)
C10_NoOvershoot ==
    \A a \in 1..Len(profiles) : FLeq(profiles[a].trust_score, F_0_8)


(***************************************************************************)
(* C12: every event held in recent_events has a threat score above 20: a   *)
(* hook frees an event whose score is 20 or less instead of adding it.     *)
(***************************************************************************)
C12_RetainedAboveTwenty ==
    /\ \A i \in 1..Len(recent_events) : recent_events[i].threat_score > 20
    /\ last.scored /\ last.hook \in {"file_permission", "task_fix_setuid"}
          /\ last.event.threat_score <= 20
       => last.event.event_id \notin event_hash
            /\ \A i \in 1..Len(recent_events) :
                   recent_events[i].event_id # last.event.event_id

\* A file access scored 20 or less was decided on and freed while the list
\* holds an earlier event.
C12_Witness ==
    /\ last.scored /\ last.hook = "file_permission"
    /\ last.event.threat_score <= 20
    /\ last.event.event_id \notin event_hash
    /\ Len(recent_events) > 0
    /\ total_events_processed > Len(recent_events)


(***************************************************************************)
(* C15: a hook call that cannot allocate its profile or its event returns  *)
(* 0 (allow) and changes no existing profile, none of the counters         *)
(* total_events_processed, threats_detected and threats_blocked, no entry  *)
(* of recent_events and no event id; when the call had created the         *)
(* process's profile before the event allocation failed, that profile      *)
(* stays and processes_monitored counts it.                                *)
(***************************************************************************)
C15_FailOpenKeepsState ==
    [][last'.hook = "enomem" /\ passes' = passes /\ now' = now
       => /\ last'.ret = 0
          /\ \A a \in 1..Len(profiles) : profiles'[a] = profiles[a]
          /\ UNCHANGED <<stat_vars, log_vars, event_id_counter>>
          /\ \/ UNCHANGED store_vars
             \/ /\ Len(profiles') = Len(profiles) + 1
                /\ processes_monitored' = processes_monitored + 1
                /\ ai_security_get_profile(profiles'[Len(profiles')].pid) = NULL]_vars

\* An allocation failed in a hook call made after events were scored and
\* retained.
C15_Witness ==
    /\ last.hook = "enomem"
    /\ total_events_processed > 0
    /\ Len(recent_events) > 0
    /\ Len(profiles) > 1

\* C15 as stated: no statistics counter changes on a fail-open return,
\* processes_monitored included.
C15_NoCounterChanges ==
    [][last'.hook = "enomem" /\ passes' = passes /\ now' = now
       => /\ last'.ret = 0
          /\ \A a \in 1..Len(profiles) : profiles'[a] = profiles[a]
          /\ UNCHANGED <<stat_vars, processes_monitored, log_vars>>]_vars


(***************************************************************************)
(* C16: every fail-open return of a hook increments a counter of the       *)
(* manager's statistics that counts internal errors.  The statistics of    *)
(* struct ai_security_manager are total_events_processed, threats_detected,*)
(* false_positives (written once, by ai_security_init), threats_blocked    *)
(* and processes_monitored; the formula asks that a fail-open return       *)
(* increments at least one of those that are ever written again.           *)
(***************************************************************************)
C16_FailOpenCounted ==
    [][last'.hook = "enomem" /\ passes' = passes /\ now' = now
       => \/ total_events_processed' = total_events_processed + 1
          \/ threats_detected' = threats_detected + 1
          \/ threats_blocked' = threats_blocked + 1
          \/ processes_monitored' = processes_monitored + 1]_vars


(***************************************************************************)
(* C19: total_events_processed is the number of events scored against a    *)
(* profile, threats_detected the number of those scored above 30.  Every   *)
(* analysis against a profile increments the profile's event_count, and    *)
(* its anomaly_count when the score exceeds 30, and nothing else writes    *)
(* the two: their sums over the profiles are the two numbers.              *)
(***************************************************************************)
C19_CountersMatchScoredEvents ==
    /\ total_events_processed = EventsScored(profiles)
    /\ threats_detected = EventsScoredAboveThirty(profiles)


(***************************************************************************)
(* C17: the number of live profiles never exceeds AI_SECURITY_MAX_PROFILES *)
(* (profile creation fails once that many exist).                          *)
(***************************************************************************)
C17_ProfilesWithinMaximum ==
    /\ Len(process_profiles) <= AI_SECURITY_MAX_PROFILES
    /\ processes_monitored <= AI_SECURITY_MAX_PROFILES


C14_AutoResponse ==
    [][/\ event_id_counter' = event_id_counter + 1
       /\ last'.scored
       /\ last'.hook \in {"file_permission", "task_fix_setuid"}
       => /\ last'.event.recommended_action =
                RecommendedAction(last'.event.threat_score,
                                  ai_security_threat_threshold)
          /\ ~ai_security_auto_response
                => last'.ret = 0 /\ threats_blocked' = threats_blocked
          /\ ai_security_auto_response
                => /\ last'.ret # 0 <=> last'.event.threat_score
                                          >= ai_security_threat_threshold
                   /\ threats_blocked' =
                         IF last'.ret # 0 THEN threats_blocked + 1
                                          ELSE threats_blocked]_vars

\* With automatic response disabled, a privilege change scored at or above
\* the threshold was allowed; quarantine is recommended, nothing was blocked.
C14_Witness ==
    /\ ~ai_security_auto_response
    /\ last.scored /\ last.hook = "task_fix_setuid"
    /\ last.event.threat_score >= ai_security_threat_threshold
    /\ last.event.recommended_action = AI_SECURITY_ACTION_QUARANTINE
    /\ last.ret = 0
    /\ threats_detected > 0
    /\ threats_blocked = 0


C18_CountersNeverDecrease ==
    [][/\ total_events_processed' >= total_events_processed
       /\ threats_detected' >= threats_detected
       /\ threats_blocked' >= threats_blocked
       /\ processes_monitored' >= processes_monitored]_vars

(***************************************************************************)
(* C20: event ids are unique and strictly increasing in creation order:    *)
(* the events held by hook calls in flight and by recent_events have       *)
(* pairwise distinct ids, none above event_id_counter, and a newly created *)
(* event has an id above every id given out before, also when several CPUs *)
(* create events at the same time.                                         *)
(***************************************************************************)
C20_EventIdsUniqueIncreasing ==
    [][/\ \A t, u \in Threads :
             ~At(t, "idle")' /\ ~At(u, "idle")' /\ t # u
                => cpu'[t].event.event_id # cpu'[u].event.event_id
       /\ \A t \in Threads, i \in 1..Len(recent_events') :
             ~At(t, "idle")'
                => cpu'[t].event.event_id # recent_events'[i].event_id
       /\ \A i, j \in 1..Len(recent_events') :
             i < j => recent_events'[i].event_id # recent_events'[j].event_id
       /\ \A t \in Threads :
             At(t, "idle") /\ ~At(t, "idle")'
                => /\ cpu'[t].event.event_id = event_id_counter'
                   /\ cpu'[t].event.event_id > event_id_counter
                   /\ \A u \in Threads :
                         ~At(u, "idle")
                            => cpu[u].event.event_id < cpu'[t].event.event_id
                   /\ \A i \in 1..Len(recent_events) :
                         recent_events[i].event_id < cpu'[t].event.event_id]_vars

\* Two CPUs hold events they created one after the other, neither added to
\* recent_events yet, while recent_events holds an earlier one.
C20_Witness ==
    /\ \A t \in Threads : At(t, "analyze")
    /\ cpu[1].event.event_id = 4 /\ cpu[2].event.event_id = 3
    /\ Len(recent_events) = 1 /\ recent_events[1].event_id = 2

(***************************************************************************)
(* C27: with the threshold the module is loaded with, the first event of a *)
(* process, a file access to a sensitive path scored against the profile   *)
(* created for it in the same call, gets score 30, level Low, action Allow *)
(* and the call returns 0 (access not denied).                             *)
(***************************************************************************)
C27_FirstSensitiveAccess ==
    [][(/\ Len(profiles') = Len(profiles) + 1
        /\ last'.scored
        /\ last'.event.type = "FILE_ACCESS"
        /\ last'.event.payload = "sensitive")
          => /\ profiles'[Len(profiles')].event_count = 1
             /\ last'.event.threat_score = 30
             /\ last'.event.threat_level = AI_SECURITY_THREAT_LOW
             /\ last'.event.recommended_action = AI_SECURITY_ACTION_ALLOW
             /\ last'.ret = 0]_vars

\* The profile of process 2 has just been created and has scored its first
\* event, a sensitive file access.
C27_Witness ==
    /\ Len(profiles) = 1
    /\ profiles[1].event_count = 1
    /\ last.hook = "file_permission"
    /\ last.event.payload = "sensitive"
    /\ last.event.threat_score = 30

(***************************************************************************)
(* C29: a profile's current_threat is the maximum of the threat levels of  *)
(* the events scored against it so far: it starts at NONE, a step that     *)
(* scores an event against the profile makes it the larger of what it was  *)
(* and the event's level, no other step changes it, and so it never        *)
(* decreases.                                                              *)
(***************************************************************************)
C29_CurrentThreatIsMaximum ==
    [][\A a \in 1..Len(profiles') :
          LET old   == IF a <= Len(profiles)
                       THEN profiles[a].current_threat
                       ELSE AI_SECURITY_THREAT_NONE
              count == IF a <= Len(profiles)
                       THEN profiles[a].event_count ELSE 0
              level == last'.event.threat_level
          IN  /\ profiles'[a].current_threat >= old
              /\ IF profiles'[a].event_count = count + 1
                 THEN /\ last'.scored
                      /\ last'.event.pid = profiles'[a].pid
                      /\ profiles'[a].current_threat =
                            (IF level > old THEN level ELSE old)
                 ELSE /\ profiles'[a].event_count = count
                      /\ profiles'[a].current_threat = old]_vars

\* An event of a lower level has been scored against a profile that had
\* reached Critical before.
C29_Witness ==
    /\ Len(profiles) = 1
    /\ last.scored
    /\ last.event.threat_level < AI_SECURITY_THREAT_HIGH
    /\ profiles[1].current_threat = AI_SECURITY_THREAT_CRITICAL

C30_ConfidenceRounded ==
    [][(/\ last'.scored
        /\ event_id_counter' = event_id_counter + 1)
       => LET behavior == IF Len(profiles) = 0 THEN F_0_8
                          ELSE profiles[1].behavior_score
              product  == FMulInt(behavior, 100)
              nearest  == IF product.q >= 30 THEN 0
                          ELSE (2 * product.m + 2^(product.q))
                                  \div 2^(product.q + 1)
          IN  last'.event.confidence =
                 (IF nearest > 100 THEN 100 ELSE nearest)]_vars

(***************************************************************************)
(* C25: every learning pass lowers the risk of every profile whose         *)
(* anomaly_count is 0 by 0.005, not below 0, also when the profile's trust *)
(* has reached 0.8.                                                        *)
(***************************************************************************)
C25_RiskLoweredEveryPass ==
    [][passes' = passes + 1
       => \A a \in 1..Len(profiles) :
             profiles[a].anomaly_count = 0
                => profiles'[a].risk_score =
                      LearnedRisk(profiles[a].risk_score)]_vars

(***************************************************************************)
(* C26 (SpecDeep: every hook call is one of process 2, which is no system  *)
(* process, and no allocation fails): after every hook call, whatever its  *)
(* event type, process 2 has a profile and the call's event was scored     *)
(* against it.                                                             *)
(***************************************************************************)
C26_ProfileOnFirstEvent ==
    [][passes' = passes
       => /\ LookupIn(profile_hash', profiles', 2) # NULL
          /\ last'.scored
          /\ last'.event.pid = 2]_vars

(***************************************************************************)
(* C22: there is a watch threshold, among the anomaly counts a profile     *)
(* reaches (its first event creates it and is no anomaly), such that in    *)
(* every state a profile whose anomaly_count has reached it is under       *)
(* observation or quarantined, and a profile under observation whose       *)
(* latest event was decided with Block, Quarantine or Terminate is         *)
(* quarantined.                                                            *)
(***************************************************************************)
C22_Lifecycle ==
    \E watch \in 1..(MaxDeepEvents - 1) :
       \A a \in 1..Len(profiles) :
          /\ profiles[a].anomaly_count >= watch
                => profiles[a].under_observation \/ profiles[a].quarantined
          /\ (/\ profiles[a].under_observation
              /\ last.scored
              /\ last.hook # "task_create"
              /\ last.event.pid = profiles[a].pid
              /\ last.event.recommended_action
                    \in {AI_SECURITY_ACTION_BLOCK, AI_SECURITY_ACTION_QUARANTINE,
                         AI_SECURITY_ACTION_TERMINATE})
             => profiles[a].quarantined

(***************************************************************************)
(* C23: every profile keeps references to its recent events in a ring of   *)
(* AI_SECURITY_MAX_EVENTS_PER_PROCESS slots: the ring holds as many        *)
(* entries as events were scored against the profile, that capacity at     *)
(* most, and the event scored last against the profile is its newest       *)
(* entry.                                                                  *)
(***************************************************************************)
C23_ProfileRing ==
    \A a \in 1..Len(profiles) :
       LET ring == profiles[a].recent_events
       IN  /\ Len(ring) = Min(profiles[a].event_count,
                              AI_SECURITY_MAX_EVENTS_PER_PROCESS)
           /\ last.scored /\ last.event.pid = profiles[a].pid
                 => ring[Len(ring)] = last.event.event_id

(***************************************************************************)
(* C24: in every state recent_events is ordered by non-decreasing          *)
(* timestamp, whatever the interleaving of the hook calls on the CPUs.     *)
(***************************************************************************)
C24_LogOrderedByTimestamp ==
    \A i, j \in 1..Len(recent_events) :
       i < j => recent_events[i].timestamp <= recent_events[j].timestamp

(***************************************************************************)
(* C21: no hook call waits on the learning pass: in no state is a CPU in   *)
(* a hook waiting in spin_lock_irqsave for events_lock or for a profile's  *)
(* lock while the learning pass holds that lock.                           *)
(***************************************************************************)
C21_NoHookWaitsOnLearner ==
    \A t \in Threads :
       ~(Waits(t) /\ Holds(Learner) /\ LockAt(Learner) = LockAt(t))

(***************************************************************************)
(* C40: a learning pass that runs while ai_security_learning_enabled is    *)
(* false changes nothing: recent_events and event_hash keep every event,   *)
(* every profile is as it was (trust, risk and last_activity included),    *)
(* and threat_intel.last_update and last_learning_update keep their        *)
(* values.                                                                 *)
(***************************************************************************)
C40_DisabledPassChangesNothing ==
    [][(passes' = passes + 1 /\ ~ai_security_learning_enabled)
       => /\ recent_events' = recent_events
          /\ event_hash' = event_hash
          /\ profiles' = profiles
          /\ threat_intel' = threat_intel
          /\ last_learning_update' = last_learning_update]_vars

\* Passes have run with learning disabled, and everything a pass works on
\* is still as it was: an event older than the retention window is in the
\* log, a profile whose trust a pass would restore has its last_activity
\* in the past, and the threat intelligence is more than a day old.
C40_Witness ==
    /\ ~ai_security_learning_enabled
    /\ passes = MaxOffPasses
    /\ Len(recent_events) > 0
    /\ Expired(recent_events[1], now)
    /\ Len(profiles) = 1
    /\ RestoresTrust(profiles[1])
    /\ profiles[1].last_activity < now
    /\ now - threat_intel.last_update > DayMs
    /\ last_learning_update < now

(***************************************************************************)
(* C32: every event scored against a profile with a final score above 20   *)
(* is appended to recent_events (and hashed), whichever hook produced it.  *)
(***************************************************************************)
C32_ScoredAboveTwentyRetained ==
    [][(/\ event_id_counter' = event_id_counter + 1
        /\ last'.scored
        /\ last'.event.threat_score > 20)
       => /\ Len(recent_events') = Len(recent_events) + 1
          /\ recent_events'[Len(recent_events')] = last'.event
          /\ last'.event.event_id \in event_hash']_vars

(***************************************************************************)
(* C33: for every profile, threat_score is the maximum of the scores of    *)
(* the events scored against it (0 if none), and current_threat is         *)
(* ai_security_classify_threat of that threat_score.                       *)
(***************************************************************************)
C33_CurrentThreatClassifiesMaximum ==
    [][\A a \in 1..Len(profiles') :
          LET old   == IF a <= Len(profiles) THEN profiles[a].threat_score
                       ELSE 0
              count == IF a <= Len(profiles) THEN profiles[a].event_count
                       ELSE 0
              score == last'.event.threat_score
          IN  /\ profiles'[a].current_threat =
                    ai_security_classify_threat(profiles'[a].threat_score)
              /\ profiles'[a].threat_score =
                    (IF profiles'[a].event_count = count + 1 /\ score > old
                     THEN score ELSE old)]_vars

\* A profile's highest score is 95 and its current_threat Critical, after a
\* later event that scored less.
C33_Witness ==
    /\ Len(profiles) = 1
    /\ last.scored
    /\ last.event.threat_score < 95
    /\ profiles[1].threat_score = 95
    /\ profiles[1].current_threat = AI_SECURITY_THREAT_CRITICAL

(***************************************************************************)
(* C34: in every state reached by hook calls and learning passes, a        *)
(* profile whose anomaly_count is 7 or more has trust below 0.3, so that   *)
(* the low-trust adjustment of 20 applies to its events.                   *)
(***************************************************************************)
C34_ManyAnomaliesLowTrust ==
    \A a \in 1..Len(profiles) :
       U32Above(profiles[a].anomaly_count, 6)
          => /\ FLess(profiles[a].trust_score, F_0_3)
             /\ TrustAdjustment(profiles[a]) = 20

\* A profile has 7 anomalies after its trust had been restored by eleven
\* learning passes.
C34_Witness ==
    /\ Len(profiles) = 1
    /\ passes >= 11
    /\ profiles[1].anomaly_count = 7
    /\ FLess(profiles[1].trust_score, F_0_3)


(***************************************************************************)
(* C35: the anomaly_count of a profile never decreases (as the unsigned    *)
(* number the field holds), and from a state where it is positive no step  *)
(* raises the trust score of the profile or lowers its risk score.         *)
(***************************************************************************)
C35_AnomalyCountNeverDecreases ==
    [][\A a \in 1..Len(profiles) :
          LET was == profiles[a].anomaly_count
              is  == profiles'[a].anomaly_count
          IN  /\ IF (was < 0) = (is < 0) THEN was <= is ELSE is < 0
              /\ was # 0
                    => /\ FLeq(profiles'[a].trust_score, profiles[a].trust_score)
                       /\ FLeq(profiles[a].risk_score, profiles'[a].risk_score)
       ]_vars

(***************************************************************************)
(* C37: with the default threshold and automatic response, a change of     *)
(* uid by a process whose profile already counts five privilege            *)
(* escalations is denied: the escalations that are allowed are among the   *)
(* first five of the process.                                              *)
(***************************************************************************)
C37_SixthEscalationDenied ==
    [][\A a \in 1..Len(profiles) :
          (/\ ai_security_threat_threshold = AI_SECURITY_THREAT_SCORE_THRESHOLD
           /\ ai_security_auto_response
           /\ profiles[a].privilege_escalation_count >= 5
           /\ profiles'[a].privilege_escalation_count
                 = profiles[a].privilege_escalation_count + 1)
          => last'.hook = "task_fix_setuid" /\ last'.ret # 0
       ]_vars

(***************************************************************************)
(* C38: with the default threshold, every call of                          *)
(* ai_security_file_permission that scores an event gives it a score of    *)
(* at most 65 and the action ALLOW or WARN, and returns 0.                 *)
(***************************************************************************)
C38_FilePermissionNeverDenies ==
    [][(/\ ai_security_threat_threshold = AI_SECURITY_THREAT_SCORE_THRESHOLD
        /\ event_id_counter' # event_id_counter
        /\ last'.hook = "file_permission")
       => /\ last'.scored
          /\ last'.event.threat_score <= 65
          /\ last'.event.recommended_action \in {AI_SECURITY_ACTION_ALLOW,
                                                 AI_SECURITY_ACTION_WARN}
          /\ last'.ret = 0
      ]_vars

\* A sensitive file access by a process with low trust and more than five
\* anomalies has been scored 65 and allowed.
C38_Witness ==
    /\ last.hook = "file_permission"
    /\ last.scored
    /\ last.event.threat_score = 65
    /\ last.event.recommended_action = AI_SECURITY_ACTION_WARN
    /\ last.ret = 0
    /\ \E a \in 1..Len(profiles) :
          /\ profiles[a].pid = last.event.pid
          /\ U32Above(profiles[a].anomaly_count, 6)

(***************************************************************************)
(* C36: whatever threshold from 0 to 100 the module is loaded with, in     *)
(* every state reached by hook calls made one after the other              *)
(* threats_blocked <= threats_detected <= total_events_processed.          *)
(***************************************************************************)
C36_CountersOrdered ==
    ai_security_threat_threshold \in 0..100
       => /\ threats_blocked <= threats_detected
          /\ threats_detected <= total_events_processed

\* C36 as it holds: the order of the three counters for a threshold above
\* 30; for every threshold, neither threats_detected nor threats_blocked
\* exceeds total_events_processed.
C36_CountersOrderedAboveThirty ==
    /\ threats_detected <= total_events_processed
    /\ threats_blocked <= total_events_processed
    /\ ai_security_threat_threshold \in 31..100
          => threats_blocked <= threats_detected

\* With the threshold 31 an event has been denied and counted as blocked.
C36_Witness ==
    /\ ai_security_threat_threshold = 31
    /\ ai_security_auto_response
    /\ threats_blocked >= 1
    /\ last.scored /\ last.ret # 0

(***************************************************************************)
(* C31: whatever the interleaving of a learning pass with hook calls on    *)
(* other CPUs, no step removes from recent_events an event that is not     *)
(* older than the retention time (an event that was appended stays until   *)
(* it is), and after every step event_hash holds the ids of the events of  *)
(* recent_events, each of them once.                                       *)
(***************************************************************************)
C31_PruningToleratesAppends ==
    [][/\ \A i \in 1..Len(recent_events) :
             now - recent_events[i].timestamp <= RetentionMs
                => \E j \in 1..Len(recent_events') :
                      recent_events'[j] = recent_events[i]
       /\ event_hash' = {recent_events'[j].event_id :
                            j \in 1..Len(recent_events')}
       /\ Cardinality(event_hash') = Len(recent_events')]_vars

\* A pass has pruned: it removed an event (fewer are held than calls have
\* returned) and kept a younger one, while a hook call on a CPU is about to
\* add its event; the pass has its profiles still to update.
C31_Witness ==
    /\ At(Learner, "profiles")
    /\ Len(recent_events) > 0
    /\ Len(recent_events) < Calls(Threads)
    /\ \A i \in 1..Len(recent_events) :
          now - recent_events[i].timestamp <= RetentionMs
    /\ \E t \in Threads : At(t, "retain")

=============================================================================
